---- MODULE Spec2Model ----
(***************************************************************************)
(* A model of the shadowsocks relay engine.                                *)
(*                                                                         *)
(* Local role (src/src/relay/tcprelay/local.rs): the acceptor loop of      *)
(* TcpRelayLocal::run with its round-robin load balancer and backend DNS   *)
(* cache, and the per-client session of TcpRelayLocal::handle_client with  *)
(* the two copy tasks it spawns.                                           *)
(*                                                                         *)
(* Server role, TCP (src/src/relay/tcprelay/server.rs): the listeners of   *)
(* TcpRelayServer::run, one for each ServerConfig, and the session future  *)
(* of TcpRelayServer::handle_client.                                       *)
(*                                                                         *)
(* Server role, UDP (src/src/relay/udprelay/server.rs): the listeners of   *)
(* run, one for each ServerConfig, and the task spawned for each datagram. *)
(*                                                                         *)
(* Server role, start and stop (src/src/relay/server.rs): run, which       *)
(* starts the UDP relay, the plugins, the signal monitor and the TCP relay *)
(* and ends with the first of them.                                        *)
(***************************************************************************)
EXTENDS Integers, Sequences, FiniteSets, TLC

(***************************************************************************)
(* Bounds of the model.                                                    *)
(***************************************************************************)
\* number of configured backends (Config.server), names taken from ServerNames
NumServers == 3
\* connections the acceptor takes before the model stops accepting
MaxAccepts == 6
\* length of the initialisation vector of the IV-carrying cipher methods
IvLen == 2
\* answers a resolver gives for one domain name, at most
MaxAnswers == 2

ServerNames == <<"A", "B", "C", "D", "E", "F">>

\* Config.server: the ordered backend list handed to RoundRobin::new
Servers == SubSeq(ServerNames, 1, NumServers)

\* session tasks alive at the same time: the slots a spawned handle_client may take
Slots == {"s1"}

(***************************************************************************)
(* Cipher methods.  The method of a backend is part of its ServerConfig.   *)
(***************************************************************************)
\* ServerConfig.method of the i-th backend
ServerMethod(i) ==
    CASE i % 4 = 1 -> "aes-128-cfb"
      [] i % 4 = 2 -> "table"
      [] i % 4 = 3 -> "rc4-md5"
      [] OTHER     -> "dummy"

\* CipherType::gen_init_vec / iv size: table and dummy carry no IV
IvSize(m) == IF m \in {"table", "dummy"} THEN 0 ELSE IvLen

\* CipherType::block_size, the length the backend-to-client task reads
BlockSize(m) == IvSize(m)

\* the vectors gen_init_vec may draw for a method: of the method's IV size
InitVecs(m) ==
    IF IvSize(m) = 0 THEN {<< >>}
    ELSE {[i \in 1..IvSize(m) |-> 0],
          [i \in 1..IvSize(m) |-> IF i = 1 THEN 2 ELSE 0]}

RECURSIVE SumSeq(_)
SumSeq(q) == IF q = << >> THEN 0 ELSE Head(q) + SumSeq(Tail(q))

\* crypto::stream::new_stream: the transform chosen for a method; table ignores
\* the IV, dummy is the identity, every other method is keyed with key and IV
new_stream(t, key, iv, mode) ==
    CASE t = "table" -> [variant |-> "TableCipher", key |-> key, iv |-> << >>,
                         mode |-> mode, pos |-> 0]
      [] t = "dummy" -> [variant |-> "DummyCipher", key |-> 0, iv |-> << >>,
                         mode |-> mode, pos |-> 0]
      [] t = "rc4-md5" -> [variant |-> "Rc4Md5Cipher", key |-> key, iv |-> iv,
                           mode |-> mode, pos |-> 0]
      [] OTHER -> [variant |-> "OpenSSLCipher", key |-> key, iv |-> iv,
                   mode |-> mode, pos |-> 0]

\* the key stream byte of a transform at its current position
KeyStream(c) ==
    CASE c.variant = "DummyCipher" -> 0
      [] c.variant = "TableCipher" -> (c.key + 1) % 3
      [] OTHER -> (c.key + SumSeq(c.iv) + c.pos) % 3

\* StreamCipher::update on one byte: the transformed byte
UpdateByte(c, b) ==
    IF c.mode = "Encrypt" THEN (b + KeyStream(c)) % 3
    ELSE (b + 3 - KeyStream(c)) % 3

\* StreamCipher::update: the transform after one more byte
Advance(c) == [c EXCEPT !.pos = @ + 1]

\* ServerConfig.password after CipherType::bytes_to_key, for the i-th backend
ServerKey(i) == i % 2

\* ServerConfig.port of the i-th backend
ServerPort(i) == 8387 + i

(***************************************************************************)
(* SOCKS5 values (relay::socks5).                                          *)
(***************************************************************************)
SOCKS5_AUTH_METHOD_NONE == 0
SOCKS5_AUTH_METHOD_NOT_ACCEPTABLE == 255

Commands == {"TcpConnect", "TcpBind", "UdpAssociate"}

\* the replies a failed TcpRequestHeader::read_from carries in err.reply
HeaderErrorReplies == {"GeneralFailure", "CommandNotSupported", "AddressTypeNotSupported"}

\* destination addresses a client may ask for
DestAddrs == {"dst1"}

\* the wire encoding written by Address::write_to
AddrBytes(a) == IF a = "dst1" THEN <<1, 0>> ELSE <<1, 2>>

\* the address the client of a slot connects from (stream.peer_addr())
PeerAddr(s) == <<"peer", s>>

\* the local listen address, Config.local; the local UDP relay binds it too
LocalAddr == <<"local", 0>>

HandshakeResponse(method) == [type |-> "HandshakeResponse", method |-> method]

TcpResponseHeader(reply, address) ==
    [type |-> "TcpResponseHeader", reply |-> reply, address |-> address]

(***************************************************************************)
(* The state.                                                              *)
(***************************************************************************)
VARIABLES
    config,         \* [enable_udp, feature_udp]: Config.enable_udp and the
                    \* build's "enable-udp" feature
    acceptor,       \* position of TcpRelayLocal::run: "accepting" or "panicked"
    cursor,         \* the RoundRobin load balancer's cursor
    cached_proxy,   \* the backend DNS cache of run: host -> resolved address
    accepted,       \* connections taken from acceptor.incoming() so far
    assigned,       \* history: per accepted connection, the backend it was
                    \* spawned with, or "dropped"
    lastPicks,      \* history: the outcome of every pick of the latest accept
    anyLookupFailed,\* history: some lookup_host of a picked backend failed
    sess,           \* the session of each slot
    forbidden_ip,   \* server role: Config.forbidden_ip
    tcpFut,         \* server role: `fut` of TcpRelayServer::run: "unstarted",
                    \* "building" (the loop over config.server), "pending",
                    \* "failed" (resolved with Err) or "panicked"
    tcpListener,    \* server role: the TcpListener of each ServerConfig
    tcpSess,        \* server role: the session of each accepted connection
    tcpConnects,    \* history: the addresses TcpStream::connect was called with
    udpFut,         \* server role: `fut` of the UDP relay's run: "unstarted",
                    \* "binding" (its first poll), "pending" or "failed"
    udpListener,    \* server role: the UdpSocket of each ServerConfig
    udpTask,        \* server role: the task of each datagram being relayed
    run             \* server role: the future of relay::server::run

vars == <<config, acceptor, cursor, cached_proxy, accepted, assigned, lastPicks,
          anyLookupFailed, sess, forbidden_ip, tcpFut, tcpListener, tcpSess,
          tcpConnects, udpFut, udpListener, udpTask, run>>

\* the state of the local role
localVars == <<config, acceptor, cursor, cached_proxy, accepted, assigned, lastPicks,
               anyLookupFailed, sess>>

\* the state of the server role's TCP relay
tcpVars == <<tcpFut, tcpListener, tcpSess, tcpConnects>>

\* the state of the server role's UDP relay
udpVars == <<udpFut, udpListener, udpTask>>

\* the state of the server role
serverVars == <<run, forbidden_ip, tcpVars, udpVars>>

\* sessions of the server's TCP relay alive at the same time
TcpSlots == {"t1", "t2"}

\* a slot of the server's TCP relay holding no session
FreeTcpSession ==
    [pc |-> "free",             \* position in the future of handle_client
     addr |-> [type |-> "none"],\* the Address read by handshake
     answers |-> << >>,         \* history: what the resolver answered
     resolved |-> "none",       \* the SocketAddr of resolve_remote
     err |-> "none"]            \* the error it failed with

\* the server role not running, as in a process of the local role
TcpServerIdle ==
    /\ tcpFut = "unstarted"
    /\ tcpListener = [l \in 1..NumServers |-> "unbound"]
    /\ tcpSess = [t \in TcpSlots |-> FreeTcpSession]
    /\ tcpConnects = {}

\* datagram tasks of the server's UDP relay alive at the same time
UdpSlots == {"u1", "u2"}

\* a slot of the server's UDP relay holding no task
FreeUdpTask ==
    [pc |-> "free",             \* position in the future `rel` of listen
     src |-> "none",            \* the source address of the datagram
     addr |-> [type |-> "none"],\* the Address read from its front
     socket |-> "none",         \* the ephemeral socket: "none", "bound", "released"
     first |-> "none",          \* history: the first answer of the resolver
     resolved |-> "none",       \* the SocketAddr of resolve_remote_addr
     sent |-> "none",           \* history: where send_dgram sent the body
     from |-> "none",           \* the sender of the datagram recv_dgram took
     reply |-> [to |-> "none"], \* history: what was sent back on the listening socket
     behind |-> FALSE,          \* history: received while an earlier datagram's
                                \* task had not ended
     err |-> "none"]            \* the error it failed with

\* the UDP relay not running
UdpServerIdle ==
    /\ udpFut = "unstarted"
    /\ udpListener = [l \in 1..NumServers |-> "unbound"]
    /\ udpTask = [u \in UdpSlots |-> FreeUdpTask]

\* ServerConfig.addr of the i-th server as the configuration gives it
ConfiguredAddr(i) == <<"configured", i>>

\* the local endpoint the plugin of the i-th server was given
PluginAddr(i) == <<"plugin", i>>

\* relay::server::run not entered: the relays hold the configuration as loaded
RunIdle ==
    [pc |-> "unstarted",        \* position of the future of run
     mode |-> "tcp_and_udp",    \* Config.mode
     plugin |-> {},             \* the servers whose ServerConfig has a plugin
     udp_addr |-> [l \in 1..NumServers |-> ConfiguredAddr(l)],
                                \* the server addresses of the context of run_udp
     tcp_addr |-> [l \in 1..NumServers |-> ConfiguredAddr(l)],
                                \* the server addresses of the context of run_tcp
     mon |-> "none",            \* the future of monitor_signal
     udp_bound |-> [l \in 1..NumServers |-> "none"],
                                \* history: the address each UDP listener bound
     tcp_bound |-> [l \in 1..NumServers |-> "none"]]
                                \* history: the address each TCP listener bound

NoCipher == [variant |-> "none", key |-> 0, iv |-> << >>, mode |-> "none", pos |-> 0]

\* a slot holding no session
FreeSession ==
    [pc |-> "free",             \* position of handle_client
     server |-> 0,              \* index of the backend picked for it
     server_addr |-> [ip |-> "none", port |-> 0],
                                \* the address handle_client connects to
     noauth |-> "unread",       \* handshake request: "yes"/"no" lists 0x00, "err"
     cmd |-> "unread",          \* header.command, or "err"
     addr |-> "none",           \* header.address
     clientOut |-> << >>,       \* what was written to the client socket
     clientWriteFailed |-> FALSE,\* history: a write to the client socket failed
     connErr |-> "none",        \* history: the error of TcpStream::connect
     clientOpen |-> FALSE,      \* some handle of the client socket is alive
     connected |-> FALSE,       \* TcpStream::connect to the backend succeeded
     iv |-> << >>,              \* encrypt_method.gen_init_vec()
     encryptor |-> NoCipher,
     remoteOut |-> << >>,       \* bytes written to the backend socket, each
                                \* tagged clear (the IV) or not (ciphertext)
     remoteOpen |-> FALSE,      \* some handle of the backend socket is alive
     clientShut |-> FALSE,      \* shutdown(Shutdown::Both) was called on the client socket
     remoteShut |-> FALSE,      \* shutdown(Shutdown::Both) was called on the backend socket
     up |-> "none",             \* the client-to-backend copy task
     upRead |-> 0,              \* bytes of the client's payload that task has read
     down |-> "none",           \* the backend-to-client copy task
     downRead |-> 0,            \* bytes of the backend's stream that task has read
     remote_iv |-> << >>,       \* the IV bytes that task has accumulated
     decryptor |-> NoCipher]

\* the local role after the bind of TcpRelayLocal::run
LocalInit ==
    /\ config \in [enable_udp : BOOLEAN, feature_udp : BOOLEAN]
    /\ acceptor = "accepting"
    /\ cursor = 0
    /\ cached_proxy = << >>
    /\ accepted = 0
    /\ assigned = << >>
    /\ lastPicks = << >>
    /\ anyLookupFailed = FALSE
    /\ sess = [s \in Slots |-> FreeSession]

Init == LocalInit /\ forbidden_ip = {} /\ TcpServerIdle /\ UdpServerIdle /\ run = RunIdle

(***************************************************************************)
(* The load balancer.                                                      *)
(***************************************************************************)
\* RoundRobin::total
total == Len(Servers)

\* RoundRobin::pick_server: list[cursor mod len], and the cursor afterwards
pick_server(c) == [index |-> (c % total) + 1, cursor |-> c + 1]

\* the address lookup_host gives for a backend host: the host's first address,
\* with no port of its own
LookupAddr(host) == [ip |-> <<"ip", host>>, port |-> 0]

\* server_addr of run: the IP of the resolved address under server_cfg.port
server_addr(addr, port) == [ip |-> addr.ip, port |-> port]

\* PickOnce with lookup_host called for every pick, cached or not
PickOnceNoCache(st, ok) ==
    LET p    == pick_server(st.cursor)
        host == Servers[p.index]
    IN  IF ok
        THEN [st EXCEPT !.cursor = p.cursor, !.server = p.index,
                        !.cache = [h \in DOMAIN st.cache \cup {host} |->
                                     IF h = host THEN LookupAddr(host) ELSE st.cache[h]],
                        !.picks = Append(@, "resolved")]
        ELSE [st EXCEPT !.cursor = p.cursor, !.picks = Append(@, "failed")]

\* PickOnce with a failed lookup skipping the backend after the failed one
PickOnceSkipping(st, ok) ==
    LET p    == pick_server(st.cursor)
        host == Servers[p.index]
    IN  IF host \in DOMAIN st.cache
        THEN [st EXCEPT !.cursor = p.cursor, !.server = p.index,
                        !.picks = Append(@, "cached")]
        ELSE IF ok
        THEN [st EXCEPT !.cursor = p.cursor, !.server = p.index,
                        !.cache = [h \in DOMAIN st.cache \cup {host} |->
                                     IF h = host THEN LookupAddr(host) ELSE st.cache[h]],
                        !.picks = Append(@, "resolved")]
        ELSE [st EXCEPT !.cursor = p.cursor + 1, !.picks = Append(@, "failed")]

\* One pass of the body of `for _ in 0..server_load_balancer.total()` for an
\* accepted connection: st is [cursor, cache, picks, server]; resolves[i] tells
\* whether lookup_host succeeds should the i-th pick need it.
PickOnce(st, ok) ==
    LET p    == pick_server(st.cursor)
        host == Servers[p.index]
    IN  IF host \in DOMAIN st.cache
        THEN [st EXCEPT !.cursor = p.cursor, !.server = p.index,
                        !.picks = Append(@, "cached")]
        ELSE IF ok
        THEN [st EXCEPT !.cursor = p.cursor, !.server = p.index,
                        !.cache = [h \in DOMAIN st.cache \cup {host} |->
                                     IF h = host THEN LookupAddr(host) ELSE st.cache[h]],
                        !.picks = Append(@, "resolved")]
        ELSE [st EXCEPT !.cursor = p.cursor, !.picks = Append(@, "failed")]

\* PickLoop without the `break` after the spawn
RECURSIVE PickLoopNoBreak(_, _, _)
PickLoopNoBreak(st, resolves, i) ==
    IF i > total THEN st
    ELSE PickLoopNoBreak(PickOnce(st, resolves[i]), resolves, i + 1)

\* the loop: at most total() passes, left at the first backend that resolves
RECURSIVE PickLoop(_, _, _)
PickLoop(st, resolves, i) ==
    IF i > total THEN st
    ELSE LET nx == PickOnce(st, resolves[i])
         IN  IF nx.server # 0 THEN nx ELSE PickLoop(nx, resolves, i + 1)

\* the session handle_client starts with
NewSession(server) ==
    [FreeSession EXCEPT !.pc = "handshake", !.server = server, !.clientOpen = TRUE]

\* the session spawned for a backend picked with the cache as the pick loop
\* left it: handle_client is given server_addr
SpawnSession(server, cache) ==
    [NewSession(server) EXCEPT
        !.server_addr = server_addr(cache[Servers[server]], ServerPort(server))]

FreeSlots == {s \in Slots : sess[s].pc = "free"}

\* One iteration of `for s in acceptor.incoming()`: the accept, the pick loop,
\* and either the spawn of handle_client or the panic when no backend resolved.
Accept ==
    /\ acceptor = "accepting"
    /\ accepted < MaxAccepts
    /\ \E resolves \in [1..total -> BOOLEAN] :
         LET st == PickLoop([cursor |-> cursor, cache |-> cached_proxy,
                             picks |-> << >>, server |-> 0], resolves, 1)
         IN  /\ st.server # 0 => FreeSlots # {}
             /\ cursor' = st.cursor
             /\ cached_proxy' = st.cache
             /\ lastPicks' = st.picks
             /\ anyLookupFailed' = (anyLookupFailed \/ \E j \in DOMAIN st.picks :
                                                         st.picks[j] = "failed")
             /\ accepted' = accepted + 1
             /\ IF st.server # 0
                THEN /\ sess' = [sess EXCEPT ![CHOOSE x \in FreeSlots : TRUE] =
                                                  SpawnSession(st.server, st.cache)]
                     /\ assigned' = Append(assigned, Servers[st.server])
                     /\ acceptor' = acceptor
                ELSE /\ sess' = sess
                     /\ assigned' = Append(assigned, "dropped")
                     /\ acceptor' = "panicked"
    /\ UNCHANGED <<config, serverVars>>

\* `s.unwrap()` on a failed accept
AcceptError ==
    /\ acceptor = "accepting"
    /\ acceptor' = "panicked"
    /\ UNCHANGED <<config, cursor, cached_proxy, accepted, assigned, lastPicks,
                   anyLookupFailed, sess, serverVars>>

\* what a step of a session leaves alone
acceptorVars == <<config, acceptor, cursor, cached_proxy, accepted, assigned,
                  lastPicks, anyLookupFailed, serverVars>>


(***************************************************************************)
(* The session: TcpRelayLocal::handle_client.                              *)
(***************************************************************************)
\* the handshake requests a client may send: unreadable, or a list of methods
HandshakeRequests ==
    [ok : {FALSE}, methods : {{}}]
    \cup [ok : {TRUE},
          methods : SUBSET {SOCKS5_AUTH_METHOD_NONE, 2}]

\* do_handshake without the `return Err` after the 0xFF response
do_handshake_no_return(req, wok) ==
    IF ~req.ok THEN [out |-> << >>, res |-> "Err"]
    ELSE IF SOCKS5_AUTH_METHOD_NONE \notin req.methods
    THEN [out |-> IF wok THEN <<HandshakeResponse(SOCKS5_AUTH_METHOD_NOT_ACCEPTABLE)>>
                         ELSE << >>,
          res |-> IF wok THEN "Ok" ELSE "Err"]
    ELSE [out |-> IF wok THEN <<HandshakeResponse(SOCKS5_AUTH_METHOD_NONE)>> ELSE << >>,
          res |-> IF wok THEN "Ok" ELSE "Err"]

\* TcpRelayLocal::do_handshake on request req, wok telling whether the write of
\* the response succeeds: what reaches the client, and Ok or Err
do_handshake(req, wok) ==
    IF ~req.ok THEN [out |-> << >>, res |-> "Err"]
    ELSE IF SOCKS5_AUTH_METHOD_NONE \notin req.methods
    THEN [out |-> IF wok THEN <<HandshakeResponse(SOCKS5_AUTH_METHOD_NOT_ACCEPTABLE)>>
                         ELSE << >>,
          res |-> "Err"]
    ELSE [out |-> IF wok THEN <<HandshakeResponse(SOCKS5_AUTH_METHOD_NONE)>> ELSE << >>,
          res |-> IF wok THEN "Ok" ELSE "Err"]

\* handle_client is left (return or panic) with no task spawned: the stream it
\* owns is dropped, and with it a backend stream it may hold
Leave(rec, pc) ==
    [rec EXCEPT !.pc = pc, !.clientOpen = FALSE, !.remoteOpen = FALSE]

\* lines 95-96: the handshake, a failure of which panics
Handshake(s) ==
    /\ sess[s].pc = "handshake"
    /\ \E req \in HandshakeRequests, wok \in BOOLEAN :
         LET h   == do_handshake(req, wok)
             rec == [sess[s] EXCEPT
                        !.noauth = IF ~req.ok THEN "err"
                                   ELSE IF SOCKS5_AUTH_METHOD_NONE \in req.methods THEN "yes"
                                   ELSE "no",
                        !.clientOut = @ \o h.out,
                        !.clientWriteFailed = req.ok /\ ~wok]
         IN  sess' = [sess EXCEPT ![s] =
                         IF h.res = "Ok" THEN [rec EXCEPT !.pc = "request"]
                         ELSE Leave(rec, "panicked")]
    /\ UNCHANGED acceptorVars

\* the request headers a client may send: unreadable with a reply code, or a
\* command and a destination address
TcpRequestHeaders ==
    [command : {"err"}, reply : HeaderErrorReplies, address : {"none"}]
    \cup [command : Commands, reply : {"none"}, address : DestAddrs]

\* lines 101-109: what is written to the client when the header cannot be read
HeaderErrorOut(reply, sockname) == << >>

\* ReadRequest with every command taken to the arm of CONNECT
ReadRequestAllConnect(s) ==
    /\ sess[s].pc = "request"
    /\ \E peerOk \in BOOLEAN, header \in TcpRequestHeaders :
         sess' = [sess EXCEPT ![s] =
            IF ~peerOk THEN Leave(@, "panicked")
            ELSE IF header.command = "err"
            THEN Leave([@ EXCEPT !.cmd = "err",
                                 !.clientOut = @ \o HeaderErrorOut(header.reply, PeerAddr(s))],
                       "done")
            ELSE [@ EXCEPT !.cmd = header.command, !.addr = header.address,
                           !.pc = "TcpConnect"]]
    /\ UNCHANGED acceptorVars

\* lines 98-113: peer_addr, the read of the request header, and the match on
\* its command
ReadRequest(s) ==
    /\ sess[s].pc = "request"
    /\ \E peerOk \in BOOLEAN, header \in TcpRequestHeaders :
         sess' = [sess EXCEPT ![s] =
            IF ~peerOk THEN Leave(@, "panicked")
            ELSE IF header.command = "err"
            THEN Leave([@ EXCEPT !.cmd = "err",
                                 !.clientOut = @ \o HeaderErrorOut(header.reply, PeerAddr(s))],
                       "done")
            ELSE [@ EXCEPT !.cmd = header.command, !.addr = header.address,
                           !.pc = header.command]]
    /\ UNCHANGED acceptorVars

\* the errors TcpStream::connect may end with
ConnectErrors == {"ConnectionRefused", "ConnectionReset", "ConnectionAborted",
                  "TimedOut", "Other"}

\* ConnectErrorReply with ConnectionReset left out of the first arm
ConnectErrorReplyNoReset(kind) ==
    IF kind \in {"ConnectionAborted", "ConnectionRefused"}
    THEN "HostUnreachable"
    ELSE "NetworkUnreachable"

\* lines 119-130: the reply for a failed connect
ConnectErrorReply(kind) ==
    IF kind \in {"ConnectionAborted", "ConnectionReset", "ConnectionRefused"}
    THEN "HostUnreachable"
    ELSE "NetworkUnreachable"

\* ConnectFail with Succeeded written to the client before the connect is
\* tried
ConnectFailAfterSucceeded(s) ==
    /\ sess[s].pc = "TcpConnect"
    /\ \E kind \in ConnectErrors, wok \in BOOLEAN :
         sess' = [sess EXCEPT ![s] =
            IF wok
            THEN Leave([@ EXCEPT !.connErr = kind,
                                 !.clientOut = @ \o
                          <<TcpResponseHeader("Succeeded", PeerAddr(s)),
                            TcpResponseHeader(ConnectErrorReply(kind), sess[s].addr)>>],
                       "done")
            ELSE Leave([@ EXCEPT !.connErr = kind, !.clientWriteFailed = TRUE],
                       "panicked")]
    /\ UNCHANGED acceptorVars

\* lines 117-133: the connect to the backend fails
ConnectFail(s) ==
    /\ sess[s].pc = "TcpConnect"
    /\ \E kind \in ConnectErrors, wok \in BOOLEAN :
         sess' = [sess EXCEPT ![s] =
            IF wok
            THEN Leave([@ EXCEPT !.connErr = kind,
                                 !.clientOut = Append(@,
                           TcpResponseHeader(ConnectErrorReply(kind), sess[s].addr))],
                       "done")
            ELSE Leave([@ EXCEPT !.connErr = kind, !.clientWriteFailed = TRUE],
                       "panicked")]
    /\ UNCHANGED acceptorVars

\* the bytes of q written in the clear
Clear(q) == [i \in 1..Len(q) |-> [b |-> q[i], clear |-> TRUE]]

\* EncryptedWriter::write_all: q through the transform c, the ciphertext and
\* the transform afterwards
RECURSIVE EncryptSeq(_, _)
EncryptSeq(c, q) ==
    IF q = << >> THEN [out |-> << >>, cipher |-> c]
    ELSE LET r == EncryptSeq(Advance(c), Tail(q))
         IN  [out |-> <<[b |-> UpdateByte(c, Head(q)), clear |-> FALSE]>> \o r.out,
              cipher |-> r.cipher]

\* SetupUpstream with the destination address written through the encryptor
\* before the IV is written
SetupUpstreamAddrFirst(rec, s, iv, failAt) ==
    LET m    == ServerMethod(rec.server)
        enc  == new_stream(m, ServerKey(rec.server), iv, "Encrypt")
        e    == EncryptSeq(enc, AddrBytes(rec.addr))
        r0   == [rec EXCEPT !.connected = TRUE, !.remoteOpen = TRUE, !.iv = iv,
                            !.encryptor = enc]
        r1   == [r0 EXCEPT !.remoteOut = @ \o e.out, !.encryptor = e.cipher]
        r2   == [r1 EXCEPT !.clientOut = Append(@,
                               TcpResponseHeader("Succeeded", PeerAddr(s)))]
        r3   == [r2 EXCEPT !.remoteOut = @ \o Clear(iv)]
    IN  CASE failAt = "addr"  -> Leave(r0, "panicked")
          [] failAt = "reply" -> Leave([r1 EXCEPT !.clientWriteFailed = TRUE], "panicked")
          [] failAt = "iv"    -> Leave(r2, "panicked")
          [] OTHER -> [r3 EXCEPT !.pc = "relay", !.up = "running", !.down = "iv"]

\* SetupUpstream with the write of the destination address left out
SetupUpstreamNoAddr(rec, s, iv, failAt) ==
    LET m    == ServerMethod(rec.server)
        enc  == new_stream(m, ServerKey(rec.server), iv, "Encrypt")
        r0   == [rec EXCEPT !.connected = TRUE, !.remoteOpen = TRUE, !.iv = iv,
                            !.encryptor = enc]
        r1   == [r0 EXCEPT !.remoteOut = @ \o Clear(iv)]
        r2   == [r1 EXCEPT !.clientOut = Append(@,
                               TcpResponseHeader("Succeeded", PeerAddr(s)))]
    IN  CASE failAt = "iv"    -> Leave(r0, "panicked")
          [] failAt = "reply" -> Leave([r1 EXCEPT !.clientWriteFailed = TRUE], "panicked")
          [] failAt = "addr"  -> Leave(r2, "panicked")
          [] OTHER -> [r2 EXCEPT !.pc = "relay", !.up = "running", !.down = "iv"]

\* lines 137-156: with the backend connected, the IV is generated and written,
\* the encryptor made, Succeeded written to the client and the destination
\* address written through the encryptor; failAt names the write that fails
SetupUpstream(rec, s, iv, failAt) ==
    LET m    == ServerMethod(rec.server)
        enc  == new_stream(m, ServerKey(rec.server), iv, "Encrypt")
        r0   == [rec EXCEPT !.connected = TRUE, !.remoteOpen = TRUE, !.iv = iv,
                            !.encryptor = enc]
        r1   == [r0 EXCEPT !.remoteOut = @ \o Clear(iv)]
        r2   == [r1 EXCEPT !.clientOut = Append(@,
                               TcpResponseHeader("Succeeded", PeerAddr(s)))]
        e    == EncryptSeq(enc, AddrBytes(rec.addr))
        r3   == [r2 EXCEPT !.remoteOut = @ \o e.out, !.encryptor = e.cipher]
    IN  CASE failAt = "iv"    -> Leave(r0, "panicked")
          [] failAt = "reply" -> Leave([r1 EXCEPT !.clientWriteFailed = TRUE], "panicked")
          [] failAt = "addr"  -> Leave(r2, "panicked")
          [] OTHER -> [r3 EXCEPT !.pc = "relay", !.up = "running", !.down = "iv"]

\* lines 117-213 with the backend connected: the setup and the two spawns
ConnectOk(s) ==
    /\ sess[s].pc = "TcpConnect"
    /\ \E iv \in InitVecs(ServerMethod(sess[s].server)),
          failAt \in {"none", "iv", "reply", "addr"} :
         sess' = [sess EXCEPT ![s] = SetupUpstream(@, s, iv, failAt)]
    /\ UNCHANGED acceptorVars

\* BindReply answering with the reply of a general failure
BindReplyGeneralFailure(rec, wok) ==
    IF wok
    THEN Leave([rec EXCEPT !.clientOut = Append(@,
                   TcpResponseHeader("GeneralFailure", rec.addr))], "done")
    ELSE Leave([rec EXCEPT !.clientWriteFailed = TRUE], "panicked")

\* lines 215-220: BIND: the reply, after which handle_client returns
BindReply(rec, wok) ==
    IF wok
    THEN Leave([rec EXCEPT !.clientOut = Append(@,
                   TcpResponseHeader("CommandNotSupported", rec.addr))], "done")
    ELSE Leave([rec EXCEPT !.clientWriteFailed = TRUE], "panicked")

TcpBind(s) ==
    /\ sess[s].pc = "TcpBind"
    /\ \E wok \in BOOLEAN : sess' = [sess EXCEPT ![s] = BindReply(@, wok)]
    /\ UNCHANGED acceptorVars

\* lines 77-88: handle_udp_associate_local, the header it writes
handle_udp_associate_local(s) == TcpResponseHeader("Succeeded", PeerAddr(s))

\* lines 221-233: UDP ASSOCIATE
UdpAssociateReply(rec, s, cfg, wok) ==
    LET hdr == IF cfg.feature_udp /\ cfg.enable_udp
               THEN handle_udp_associate_local(s)
               ELSE TcpResponseHeader("CommandNotSupported", rec.addr)
    IN  IF wok
        THEN Leave([rec EXCEPT !.clientOut = Append(@, hdr)], "done")
        ELSE Leave([rec EXCEPT !.clientWriteFailed = TRUE], "panicked")

UdpAssociate(s) ==
    /\ sess[s].pc = "UdpAssociate"
    /\ \E wok \in BOOLEAN : sess' = [sess EXCEPT ![s] = UdpAssociateReply(@, s, config, wok)]
    /\ UNCHANGED acceptorVars

(***************************************************************************)
(* The two copy tasks handle_client spawns.                                *)
(***************************************************************************)
\* what the client sends after its request header
ClientPayload == <<1, 2>>

\* what the destination answers, as the backend's plaintext
ServerPayload == <<2, 1>>

\* the IV the backend chose for its direction
ServerIv(m) == [i \in 1..BlockSize(m) |-> 1]

\* the bytes the backend sends down the connection of a session's server
RemoteStream(server) ==
    LET m == ServerMethod(server)
        e == EncryptSeq(new_stream(m, ServerKey(server), ServerIv(m), "Encrypt"),
                        ServerPayload)
    IN  ServerIv(m) \o [i \in 1..Len(e.out) |-> e.out[i].b]

\* a task ended: the handles it owned are dropped, and a socket with no handle
\* left is closed
DropHandles(rec) ==
    IF rec.up \in {"done", "failed"} /\ rec.down \in {"done", "failed", "panicked"}
    THEN [rec EXCEPT !.clientOpen = FALSE, !.remoteOpen = FALSE]
    ELSE rec

\* lines 159-160: io::copy of the client-to-backend task moves one more byte
\* through the encryptor
UpCopy(s) ==
    /\ sess[s].up = "running"
    /\ ~sess[s].clientShut /\ ~sess[s].remoteShut
    /\ sess[s].upRead < Len(ClientPayload)
    /\ LET e == EncryptSeq(sess[s].encryptor, <<ClientPayload[sess[s].upRead + 1]>>)
       IN  sess' = [sess EXCEPT ![s] = [@ EXCEPT !.remoteOut = @ \o e.out,
                                                 !.encryptor = e.cipher,
                                                 !.upRead = @ + 1]]
    /\ UNCHANGED acceptorVars

\* UpEnd with the shutdown of the client socket left out of the error arm
UpEndRemoteOnly(rec, result) ==
    IF result = "Ok"
    THEN DropHandles([rec EXCEPT !.up = "done"])
    ELSE DropHandles([rec EXCEPT !.up = "failed", !.remoteShut = TRUE])

\* lines 159-173: how the client-to-backend task ends: Ok(..) on end of file,
\* or Err with both sockets shut down
UpEnd(rec, result) ==
    IF result = "Ok"
    THEN DropHandles([rec EXCEPT !.up = "done"])
    ELSE DropHandles([rec EXCEPT !.up = "failed", !.clientShut = TRUE,
                                 !.remoteShut = TRUE])

UpFinish(s) ==
    /\ sess[s].up = "running"
    /\ \E result \in {"Ok", "Err"} : sess' = [sess EXCEPT ![s] = UpEnd(@, result)]
    /\ UNCHANGED acceptorVars

\* lines 177-197: one read of the loop that accumulates the backend's IV; with
\* the last byte the decryptor is made from the bytes received
ReadIv(rec, n) ==
    LET m    == ServerMethod(rec.server)
        got  == rec.remote_iv \o SubSeq(RemoteStream(rec.server),
                                        rec.downRead + 1, rec.downRead + n)
        r    == [rec EXCEPT !.remote_iv = got, !.downRead = @ + n]
    IN  IF Len(got) < BlockSize(m) THEN r
        ELSE [r EXCEPT !.down = "copy",
                       !.decryptor = new_stream(m, ServerKey(rec.server), got, "Decrypt")]

\* with a block size of 0 the loop makes no read at all
DownReadIv(s) ==
    /\ sess[s].down = "iv"
    /\ LET need == BlockSize(ServerMethod(sess[s].server)) - Len(sess[s].remote_iv)
       IN  /\ need = 0 \/ ~sess[s].remoteShut
           /\ \E n \in IF need = 0 THEN {0} ELSE 1..need :
                sess' = [sess EXCEPT ![s] = ReadIv(@, n)]
    /\ UNCHANGED acceptorVars

\* lines 185-189: Ok(0) or Err while the IV is incomplete: the task panics
DownIvFail(s) ==
    /\ sess[s].down = "iv"
    /\ Len(sess[s].remote_iv) < BlockSize(ServerMethod(sess[s].server))
    /\ sess' = [sess EXCEPT ![s] = DropHandles([@ EXCEPT !.down = "panicked"])]
    /\ UNCHANGED acceptorVars

\* DownCopy with the decryptor left where it was after a byte
DownCopyStaleCipher(s) ==
    /\ sess[s].down = "copy"
    /\ ~sess[s].clientShut /\ ~sess[s].remoteShut
    /\ sess[s].downRead < Len(RemoteStream(sess[s].server))
    /\ LET c == sess[s].decryptor
           b == RemoteStream(sess[s].server)[sess[s].downRead + 1]
       IN  sess' = [sess EXCEPT ![s] =
                       [@ EXCEPT !.clientOut = Append(@, [type |-> "data",
                                                         b |-> UpdateByte(c, b)]),
                                 !.downRead = @ + 1]]
    /\ UNCHANGED acceptorVars

\* line 198: io::copy of the backend-to-client task moves one more byte
\* through the decryptor
DownCopy(s) ==
    /\ sess[s].down = "copy"
    /\ ~sess[s].clientShut /\ ~sess[s].remoteShut
    /\ sess[s].downRead < Len(RemoteStream(sess[s].server))
    /\ LET c == sess[s].decryptor
           b == RemoteStream(sess[s].server)[sess[s].downRead + 1]
       IN  sess' = [sess EXCEPT ![s] =
                       [@ EXCEPT !.clientOut = Append(@, [type |-> "data",
                                                         b |-> UpdateByte(c, b)]),
                                 !.decryptor = Advance(c),
                                 !.downRead = @ + 1]]
    /\ UNCHANGED acceptorVars

\* lines 198-212: how the backend-to-client task ends
DownEnd(rec, result) ==
    IF result = "Ok"
    THEN DropHandles([rec EXCEPT !.down = "done"])
    ELSE DropHandles([rec EXCEPT !.down = "failed", !.clientShut = TRUE,
                                 !.remoteShut = TRUE])

DownFinish(s) ==
    /\ sess[s].down = "copy"
    /\ \E result \in {"Ok", "Err"} : sess' = [sess EXCEPT ![s] = DownEnd(@, result)]
    /\ UNCHANGED acceptorVars

\* every task of the session has ended
Ended(rec) ==
    \/ rec.pc \in {"done", "panicked"}
    \/ /\ rec.pc = "relay"
       /\ rec.up \in {"done", "failed"}
       /\ rec.down \in {"done", "failed", "panicked"}

\* the slot of a session all of whose tasks have ended is taken again
Reap(s) ==
    /\ Ended(sess[s])
    /\ sess' = [sess EXCEPT ![s] = FreeSession]
    /\ UNCHANGED acceptorVars

Next ==
    \/ Accept
    \/ AcceptError
    \/ \E s \in Slots :
         \/ Handshake(s)
         \/ ReadRequest(s)
         \/ ConnectFail(s)
         \/ ConnectOk(s)
         \/ TcpBind(s)
         \/ UdpAssociate(s)
         \/ UpCopy(s)
         \/ UpFinish(s)
         \/ DownReadIv(s)
         \/ DownIvFail(s)
         \/ DownCopy(s)
         \/ DownFinish(s)
         \/ Reap(s)

Spec == Init /\ [][Next]_vars

(***************************************************************************)
(* Server role: the TCP relay, TcpRelayServer.                             *)
(***************************************************************************)
\* the IP addresses a target may have
IpAddrs == {"ip1", "ip2"}

\* the forbidden sets a configuration may hold
ForbiddenSets == {{}, {"ip1"}}

SocketAddress(ip) == [type |-> "SocketAddress", ip |-> ip]

DomainNameAddress(dname) == [type |-> "DomainNameAddress", dname |-> dname]

\* the targets Address::read_from may yield
Addresses == {SocketAddress(ip) : ip \in IpAddrs} \cup {DomainNameAddress("dom")}

\* the sequences over S of length at most n
RECURSIVE SeqsUpTo(_, _)
SeqsUpTo(S, n) ==
    IF n = 0 THEN {<< >>}
    ELSE LET shorter == SeqsUpTo(S, n - 1)
         IN  shorter \cup {Append(q, x) : q \in shorter, x \in S}

\* what to_socket_addrs may give for a domain name: an error, or its answers
\* in the resolver's order
Resolutions ==
    [ok : {FALSE}, addrs : {<< >>}] \cup [ok : {TRUE}, addrs : SeqsUpTo(IpAddrs, MaxAnswers)]

\* the local role not running, as in a process of the server role
LocalIdle == LocalInit /\ config = [enable_udp |-> FALSE, feature_udp |-> FALSE]

\* TcpRelayServer::run is entered with the configuration loaded
TcpServerInit ==
    /\ LocalIdle
    /\ forbidden_ip \in ForbiddenSets
    /\ tcpFut = "building"
    /\ tcpListener = [l \in 1..NumServers |-> "unbound"]
    /\ tcpSess = [t \in TcpSlots |-> FreeTcpSession]
    /\ tcpConnects = {}
    /\ UdpServerIdle
    /\ run = RunIdle

\* the ServerConfig the loop of run is at
NextUnbound == CHOOSE l \in 1..NumServers :
                  /\ tcpListener[l] = "unbound"
                  /\ \A j \in 1..(l - 1) : tcpListener[j] # "unbound"

\* lines 164-195: one pass of `for svr_cfg in &self.config.server`: the bind,
\* whose failure panics in `unwrap` and unwinds run, dropping the listeners
\* bound so far; after the last pass run returns the joined future
ServerBind ==
    /\ tcpFut = "building"
    /\ \E ok \in BOOLEAN :
         LET l == NextUnbound
         IN  IF ok
             THEN /\ tcpListener' = [tcpListener EXCEPT ![l] = "listening"]
                  /\ tcpFut' = IF l = NumServers THEN "pending" ELSE "building"
                  /\ run' = [run EXCEPT !.tcp_bound[l] = run.tcp_addr[l]]
             ELSE /\ tcpListener' = [j \in 1..NumServers |->
                                       IF j = l THEN "bindfailed"
                                       ELSE IF tcpListener[j] = "listening" THEN "closed"
                                       ELSE tcpListener[j]]
                  /\ tcpFut' = "panicked"
                  /\ run' = run
    /\ UNCHANGED <<localVars, forbidden_ip, udpVars, tcpSess, tcpConnects>>

\* lines 191-194: the futures of the listeners are joined: when the future of
\* listener l resolves with Err, the join resolves with Err and drops the others
JoinFailed(l) ==
    [j \in 1..NumServers |-> IF j = l THEN "failed" ELSE "closed"]

FreeTcpSlots == {t \in TcpSlots : tcpSess[t].pc = "free"}

\* lines 177-185 and 122-155: a connection is accepted and handle_client is
\* called in the closure of for_each: `try!(s.peer_addr())` returns Err to
\* for_each, which ends the listener's future with it; otherwise the session
\* future is spawned
ServerAccept(l) ==
    /\ tcpFut = "pending"
    /\ tcpListener[l] = "listening"
    /\ FreeTcpSlots # {}
    /\ LET t == CHOOSE x \in FreeTcpSlots : TRUE
       IN  \E peerOk \in BOOLEAN :
             IF peerOk
             THEN /\ tcpSess' = [tcpSess EXCEPT ![t] =
                                   [FreeTcpSession EXCEPT !.pc = "handshake"]]
                  /\ UNCHANGED <<tcpFut, tcpListener>>
             ELSE /\ tcpSess' = [tcpSess EXCEPT ![t] =
                                   [FreeTcpSession EXCEPT !.pc = "failed",
                                                          !.err = "peer_addr"]]
                  /\ tcpListener' = JoinFailed(l)
                  /\ tcpFut' = "failed"
    /\ UNCHANGED <<localVars, run, forbidden_ip, udpVars, tcpConnects>>

\* lines 176-189: listener.incoming() yields an error
ServerAcceptError(l) ==
    /\ tcpFut = "pending"
    /\ tcpListener[l] = "listening"
    /\ tcpListener' = JoinFailed(l)
    /\ tcpFut' = "failed"
    /\ UNCHANGED <<localVars, run, forbidden_ip, udpVars, tcpSess, tcpConnects>>

\* the session future resolved with Err: lines 144-152 log it
TcpFail(rec, err) == [rec EXCEPT !.pc = "failed", !.err = err]

\* lines 64-73: proxy_handshake and Address::read_from
ServerHandshake(t) ==
    /\ tcpSess[t].pc = "handshake"
    /\ \/ \E a \in Addresses :
            tcpSess' = [tcpSess EXCEPT ![t] = [@ EXCEPT !.pc = "resolve", !.addr = a]]
       \/ \E err \in {"handshake", "address"} :
            tcpSess' = [tcpSess EXCEPT ![t] = TcpFail(@, err)]
    /\ UNCHANGED <<localVars, run, forbidden_ip, udpVars, tcpFut, tcpListener, tcpConnects>>

\* resolve_address taking the last answer
resolve_address_last(addr, res) ==
    IF addr.type = "SocketAddress" THEN [ok |-> TRUE, addr |-> addr.ip, err |-> "none"]
    ELSE IF ~res.ok THEN [ok |-> FALSE, addr |-> "none", err |-> "lookup"]
    ELSE IF res.addrs = << >>
    THEN [ok |-> FALSE, addr |-> "none", err |-> "Failed to resolve domain"]
    ELSE [ok |-> TRUE, addr |-> res.addrs[Len(res.addrs)], err |-> "none"]

\* lines 75-87: resolve_address: a socket address as it is; for a domain name
\* the first of the resolver's answers, an error when there is none
resolve_address(addr, res) ==
    IF addr.type = "SocketAddress" THEN [ok |-> TRUE, addr |-> addr.ip, err |-> "none"]
    ELSE IF ~res.ok THEN [ok |-> FALSE, addr |-> "none", err |-> "lookup"]
    ELSE IF res.addrs = << >>
    THEN [ok |-> FALSE, addr |-> "none", err |-> "Failed to resolve domain"]
    ELSE [ok |-> TRUE, addr |-> Head(res.addrs), err |-> "none"]

\* resolve_remote checking only the addresses that came from a resolution
resolve_remote_domains_only(addr, res, forbidden) ==
    LET r == resolve_address(addr, res)
    IN  IF r.ok /\ addr.type = "DomainNameAddress" /\ r.addr \in forbidden
        THEN [ok |-> FALSE, addr |-> "none", err |-> "Forbidden IP"]
        ELSE r

\* lines 89-110: resolve_remote: the resolved address is refused when its IP is
\* in forbidden_ip
resolve_remote(addr, res, forbidden) ==
    LET r == resolve_address(addr, res)
    IN  IF r.ok /\ r.addr \in forbidden
        THEN [ok |-> FALSE, addr |-> "none", err |-> "Forbidden IP"]
        ELSE r

\* lines 118: the first half of connect_remote
ServerResolve(t) ==
    /\ tcpSess[t].pc = "resolve"
    /\ \E res \in IF tcpSess[t].addr.type = "SocketAddress"
                  THEN {[ok |-> TRUE, addrs |-> << >>]} ELSE Resolutions :
         LET r == resolve_remote(tcpSess[t].addr, res, forbidden_ip)
         IN  tcpSess' = [tcpSess EXCEPT ![t] =
                IF r.ok THEN [@ EXCEPT !.pc = "connect", !.answers = res.addrs,
                                       !.resolved = r.addr]
                ELSE TcpFail([@ EXCEPT !.answers = res.addrs], r.err)]
    /\ UNCHANGED <<localVars, run, forbidden_ip, udpVars, tcpFut, tcpListener, tcpConnects>>

\* line 119: TcpStream::connect to the resolved address
ServerConnect(t) ==
    /\ tcpSess[t].pc = "connect"
    /\ tcpConnects' = tcpConnects \cup {tcpSess[t].resolved}
    /\ \E ok \in BOOLEAN :
         tcpSess' = [tcpSess EXCEPT ![t] =
                        IF ok THEN [@ EXCEPT !.pc = "tunnel"] ELSE TcpFail(@, "connect")]
    /\ UNCHANGED <<localVars, run, forbidden_ip, udpVars, tcpFut, tcpListener>>

\* lines 137-141: the tunnel of the two copies comes to its end
ServerTunnel(t) ==
    /\ tcpSess[t].pc = "tunnel"
    /\ \E ok \in BOOLEAN :
         tcpSess' = [tcpSess EXCEPT ![t] =
                        IF ok THEN [@ EXCEPT !.pc = "done"] ELSE TcpFail(@, "copy")]
    /\ UNCHANGED <<localVars, run, forbidden_ip, udpVars, tcpFut, tcpListener, tcpConnects>>

\* the slot of a session whose future resolved is taken again
ServerReap(t) ==
    /\ tcpSess[t].pc \in {"done", "failed"}
    /\ tcpSess' = [tcpSess EXCEPT ![t] = FreeTcpSession]
    /\ UNCHANGED <<localVars, run, forbidden_ip, udpVars, tcpFut, tcpListener, tcpConnects>>

TcpServerNext ==
    \/ ServerBind
    \/ \E l \in 1..NumServers :
         \/ ServerAccept(l)
         \/ ServerAcceptError(l)
    \/ \E t \in TcpSlots :
         \/ ServerHandshake(t)
         \/ ServerResolve(t)
         \/ ServerConnect(t)
         \/ ServerTunnel(t)
         \/ ServerReap(t)

TcpServerSpec == TcpServerInit /\ [][TcpServerNext]_vars

(***************************************************************************)
(* Server role: the UDP relay, relay::udprelay::server.                    *)
(***************************************************************************)
\* the sources datagrams come from
UdpSources == {"c1", "c2"}

\* run is entered with the configuration loaded: the join of the listen
\* futures is about to be polled
UdpServerInit ==
    /\ LocalIdle
    /\ forbidden_ip \in ForbiddenSets
    /\ TcpServerIdle
    /\ udpFut = "binding"
    /\ udpListener = [l \in 1..NumServers |-> "unbound"]
    /\ udpTask = [u \in UdpSlots |-> FreeUdpTask]
    /\ run = RunIdle

\* the listen future the first poll of the join is at
NextUdpUnbound == CHOOSE l \in 1..NumServers :
                     /\ udpListener[l] = "unbound"
                     /\ \A j \in 1..(l - 1) : udpListener[j] # "unbound"

\* lines 48 and 137-145: the first poll of the join runs the lazy
\* UdpSocket::bind of each listen future in turn; an Err of one resolves the
\* join with it and drops the listeners bound so far
UdpBind ==
    /\ udpFut = "binding"
    /\ \E ok \in BOOLEAN :
         LET l == NextUdpUnbound
         IN  IF ok
             THEN /\ udpListener' = [udpListener EXCEPT ![l] = "listening"]
                  /\ udpFut' = IF l = NumServers THEN "pending" ELSE "binding"
                  /\ run' = [run EXCEPT !.udp_bound[l] = run.udp_addr[l]]
             ELSE /\ udpListener' = [j \in 1..NumServers |->
                                       IF j = l THEN "bindfailed"
                                       ELSE IF udpListener[j] = "listening" THEN "closed"
                                       ELSE udpListener[j]]
                  /\ udpFut' = "failed"
                  /\ run' = run
    /\ UNCHANGED <<localVars, forbidden_ip, tcpVars, udpTask>>

FreeUdpSlots == {u \in UdpSlots : udpTask[u].pc = "free"}

\* the tasks that have not ended
UdpInFlight == {u \in UdpSlots : udpTask[u].pc \notin {"free", "done", "failed"}}

\* UdpReceive with `rel` returned to for_each instead of spawned: the next
\* datagram is taken from the stream when the future of the last one resolved
UdpReceiveInline(l) ==
    /\ udpFut = "pending"
    /\ udpListener[l] = "listening"
    /\ FreeUdpSlots # {}
    /\ UdpInFlight = {}
    /\ \E src \in UdpSources :
         udpTask' = [udpTask EXCEPT ![CHOOSE x \in FreeUdpSlots : TRUE] =
                        [FreeUdpTask EXCEPT !.pc = "decode", !.src = src,
                                            !.behind = UdpInFlight # {}]]
    /\ UNCHANGED <<localVars, run, forbidden_ip, tcpVars, udpFut, udpListener>>

\* lines 50-55 and 124-128: PacketStream yields a datagram (pkt, src) and its
\* future `rel` is handed to tokio::spawn
UdpReceive(l) ==
    /\ udpFut = "pending"
    /\ udpListener[l] = "listening"
    /\ FreeUdpSlots # {}
    /\ \E src \in UdpSources :
         udpTask' = [udpTask EXCEPT ![CHOOSE x \in FreeUdpSlots : TRUE] =
                        [FreeUdpTask EXCEPT !.pc = "decode", !.src = src,
                                            !.behind = UdpInFlight # {}]]
    /\ UNCHANGED <<localVars, run, forbidden_ip, tcpVars, udpFut, udpListener>>

\* lines 50 and 140-144: PacketStream yields an error: the listen future
\* resolves with it, and so does the join
UdpReceiveError(l) ==
    /\ udpFut = "pending"
    /\ udpListener[l] = "listening"
    /\ udpListener' = [j \in 1..NumServers |-> IF j = l THEN "failed" ELSE "closed"]
    /\ udpFut' = "failed"
    /\ UNCHANGED <<localVars, run, forbidden_ip, tcpVars, udpTask>>

\* lines 124-126: `rel` resolved with Err: it is logged, and the task's
\* ephemeral socket is dropped with it
UdpFail(rec, err) ==
    [rec EXCEPT !.pc = "failed", !.err = err,
                !.socket = IF @ = "bound" THEN "released" ELSE @]

\* lines 56-74, the first poll of `rel`, none of whose steps waits:
\* decrypt_payload, Address::read_from on the decrypted bytes, and the bind of
\* the ephemeral socket
UdpDecode(u) ==
    /\ udpTask[u].pc = "decode"
    /\ \/ \E err \in {"decrypt", "address"} :
            udpTask' = [udpTask EXCEPT ![u] = UdpFail(@, err)]
       \/ \E a \in Addresses, bound \in BOOLEAN :
            udpTask' = [udpTask EXCEPT ![u] =
                           IF bound THEN [@ EXCEPT !.pc = "resolve", !.addr = a,
                                                   !.socket = "bound"]
                           ELSE UdpFail([@ EXCEPT !.addr = a], "bind")]
    /\ UNCHANGED <<localVars, run, forbidden_ip, tcpVars, udpFut, udpListener>>

\* relay::dns_resolver::resolve(config, dname, port, check_forbidden): the
\* answers of the resolver, refused when there is none or when the first one
\* is forbidden and the check is asked for
resolve(res, forbidden, check_forbidden) ==
    IF ~res.ok \/ res.addrs = << >>
    THEN [ok |-> FALSE, addrs |-> << >>, err |-> "resolve"]
    ELSE IF check_forbidden /\ Head(res.addrs) \in forbidden
    THEN [ok |-> FALSE, addrs |-> << >>, err |-> "forbidden"]
    ELSE [ok |-> TRUE, addrs |-> res.addrs, err |-> "none"]

\* resolve_remote_addr without the check of a socket address
resolve_remote_addr_unchecked(addr, res, forbidden) ==
    IF addr.type = "SocketAddress"
    THEN [ok |-> TRUE, addr |-> addr.ip, err |-> "none"]
    ELSE LET r == resolve(res, forbidden, TRUE)
         IN  IF r.ok THEN [ok |-> TRUE, addr |-> r.addrs[1], err |-> "none"]
             ELSE [ok |-> FALSE, addr |-> "none", err |-> r.err]

\* lines 24-43: resolve_remote_addr: a socket address is refused when its IP
\* is in forbidden_ip; a domain name is resolved with the check asked for and
\* the first address of the result is taken
resolve_remote_addr(addr, res, forbidden) ==
    IF addr.type = "SocketAddress"
    THEN IF addr.ip \in forbidden
         THEN [ok |-> FALSE, addr |-> "none", err |-> "forbidden"]
         ELSE [ok |-> TRUE, addr |-> addr.ip, err |-> "none"]
    ELSE LET r == resolve(res, forbidden, TRUE)
         IN  IF r.ok THEN [ok |-> TRUE, addr |-> r.addrs[1], err |-> "none"]
             ELSE [ok |-> FALSE, addr |-> "none", err |-> r.err]

\* line 76: the target is resolved
UdpResolve(u) ==
    /\ udpTask[u].pc = "resolve"
    /\ \E res \in IF udpTask[u].addr.type = "SocketAddress"
                  THEN {[ok |-> TRUE, addrs |-> << >>]} ELSE Resolutions :
         LET r     == resolve_remote_addr(udpTask[u].addr, res, forbidden_ip)
             first == IF res.addrs = << >> THEN "none" ELSE Head(res.addrs)
         IN  udpTask' = [udpTask EXCEPT ![u] =
                IF r.ok THEN [@ EXCEPT !.pc = "send", !.first = first,
                                       !.resolved = r.addr]
                ELSE UdpFail([@ EXCEPT !.first = first], r.err)]
    /\ UNCHANGED <<localVars, run, forbidden_ip, tcpVars, udpFut, udpListener>>

\* lines 77-78: send_dgram of the body to the resolved address
UdpSend(u) ==
    /\ udpTask[u].pc = "send"
    /\ \E ok \in BOOLEAN :
         udpTask' = [udpTask EXCEPT ![u] =
                        IF ok THEN [@ EXCEPT !.pc = "recv", !.sent = udpTask[u].resolved]
                        ELSE UdpFail(@, "send")]
    /\ UNCHANGED <<localVars, run, forbidden_ip, tcpVars, udpFut, udpListener>>

\* UdpRecvReply with recv_dgram under no deadline
UdpRecvReplyNoDeadline(u) ==
    /\ udpTask[u].pc = "recv"
    /\ \/ \E from \in IpAddrs :
            udpTask' = [udpTask EXCEPT ![u] = [@ EXCEPT !.pc = "sendback", !.from = from]]
       \/ udpTask' = [udpTask EXCEPT ![u] = UdpFail(@, "recv")]
    /\ UNCHANGED <<localVars, run, forbidden_ip, tcpVars, udpFut, udpListener>>

\* UdpRecvReply with the deadline's expiry taken for a reply
UdpRecvReplyPastDeadline(u) ==
    /\ udpTask[u].pc = "recv"
    /\ \/ \E from \in IpAddrs :
            udpTask' = [udpTask EXCEPT ![u] = [@ EXCEPT !.pc = "sendback", !.from = from]]
       \/ udpTask' = [udpTask EXCEPT ![u] = [@ EXCEPT !.pc = "sendback"]]
       \/ udpTask' = [udpTask EXCEPT ![u] = UdpFail(@, "recv")]
    /\ UNCHANGED <<localVars, run, forbidden_ip, tcpVars, udpFut, udpListener>>

\* UdpRecvReply with the sender of a datagram compared with the address the
\* body was sent to: a datagram of another sender is left aside
UdpRecvReplyFromTarget(u) ==
    /\ udpTask[u].pc = "recv"
    /\ \/ udpTask' = [udpTask EXCEPT ![u] = [@ EXCEPT !.pc = "sendback",
                                                      !.from = udpTask[u].sent]]
       \/ \E err \in {"recv", "TimedOut"} :
            udpTask' = [udpTask EXCEPT ![u] = UdpFail(@, err)]
    /\ UNCHANGED <<localVars, run, forbidden_ip, tcpVars, udpFut, udpListener>>

\* lines 81-95: recv_dgram under the deadline: a datagram from some sender, an
\* error, or the deadline
UdpRecvReply(u) ==
    /\ udpTask[u].pc = "recv"
    /\ \/ \E from \in IpAddrs :
            udpTask' = [udpTask EXCEPT ![u] = [@ EXCEPT !.pc = "sendback", !.from = from]]
       \/ \E err \in {"recv", "TimedOut"} :
            udpTask' = [udpTask EXCEPT ![u] = UdpFail(@, err)]
    /\ UNCHANGED <<localVars, run, forbidden_ip, tcpVars, udpFut, udpListener>>

\* UdpSendBack with the source and the address kept in one place for all the
\* tasks: those of the datagram received last, here the other task's when
\* there is one
UdpSendBackShared(u) ==
    /\ udpTask[u].pc = "sendback"
    /\ LET others == {v \in UdpSlots \ {u} : udpTask[v].addr.type # "none"}
           w      == IF others = {} THEN u ELSE CHOOSE v \in others : TRUE
       IN  \/ udpTask' = [udpTask EXCEPT ![u] =
                            [@ EXCEPT !.pc = "done", !.socket = "released",
                                      !.reply = [to |-> udpTask[w].src,
                                                 addr |-> udpTask[w].addr]]]
           \/ \E err \in {"encrypt", "send", "TimedOut"} :
                udpTask' = [udpTask EXCEPT ![u] = UdpFail(@, err)]
    /\ UNCHANGED <<localVars, run, forbidden_ip, tcpVars, udpFut, udpListener>>

\* lines 96-122: the request's address is put in front of the reply, the whole
\* is encrypted and sent to src on the listening socket under the deadline
UdpSendBack(u) ==
    /\ udpTask[u].pc = "sendback"
    /\ \/ udpTask' = [udpTask EXCEPT ![u] =
                        [@ EXCEPT !.pc = "done", !.socket = "released",
                                  !.reply = [to |-> udpTask[u].src,
                                             addr |-> udpTask[u].addr]]]
       \/ \E err \in {"encrypt", "send", "TimedOut"} :
            udpTask' = [udpTask EXCEPT ![u] = UdpFail(@, err)]
    /\ UNCHANGED <<localVars, run, forbidden_ip, tcpVars, udpFut, udpListener>>

\* the slot of a task whose future resolved is taken again
UdpReap(u) ==
    /\ udpTask[u].pc \in {"done", "failed"}
    /\ udpTask' = [udpTask EXCEPT ![u] = FreeUdpTask]
    /\ UNCHANGED <<localVars, run, forbidden_ip, tcpVars, udpFut, udpListener>>

UdpServerNext ==
    \/ UdpBind
    \/ \E l \in 1..NumServers :
         \/ UdpReceive(l)
         \/ UdpReceiveError(l)
    \/ \E u \in UdpSlots :
         \/ UdpDecode(u)
         \/ UdpResolve(u)
         \/ UdpSend(u)
         \/ UdpRecvReply(u)
         \/ UdpSendBack(u)
         \/ UdpReap(u)

UdpServerSpec == UdpServerInit /\ [][UdpServerNext]_vars

\* the links of `rel` that wait for nothing outside the process but the
\* resolver and the socket's readiness to send
UdpStep(u) == UdpDecode(u) \/ UdpResolve(u) \/ UdpSend(u)

\* lines 86 and 111: the timer of a deadline fires
UdpDeadline(u) == (UdpRecvReply(u) \/ UdpSendBack(u)) /\ udpTask'[u].err = "TimedOut"

\* The runtime polls a spawned task whenever it can move, and a timer that
\* was set fires; whether a target ever answers, or the client's side ever
\* takes the datagram, is left open.
UdpFairSpec ==
    UdpServerSpec /\ \A u \in UdpSlots : WF_vars(UdpStep(u) \/ UdpDeadline(u))

(***************************************************************************)
(* Server role: relay::server::run, which starts the UDP relay, the        *)
(* plugins, the signal monitor and the TCP relay, and waits for the first  *)
(* of them to end.  The sessions of the relays are not stepped here.       *)
(***************************************************************************)
Modes == {"tcp_only", "udp_only", "tcp_and_udp"}

\* Mode::enable_tcp and Mode::enable_udp
enable_tcp(mode) == mode \in {"tcp_only", "tcp_and_udp"}
enable_udp(mode) == mode \in {"udp_only", "tcp_and_udp"}

\* the sets of servers configured with a plugin
PluginSets == {{}, {1}, 1..NumServers}

\* plugin::launch_plugin(config, PluginMode::Server): the address of every
\* server that has a plugin is replaced by the plugin's local endpoint
launch_plugin(addr, plugin) ==
    [l \in 1..NumServers |-> IF l \in plugin THEN PluginAddr(l) ELSE addr[l]]

\* the future of run was made and is about to be polled
ServerRunInit ==
    /\ LocalIdle
    /\ forbidden_ip = {}
    /\ TcpServerIdle
    /\ UdpServerIdle
    /\ run \in {[RunIdle EXCEPT !.pc = "lazy", !.mode = m, !.plugin = p] :
                   m \in Modes, p \in PluginSets}

\* RunStart with the context of the UDP relay taken after the plugins started
RunStartUdpLate ==
    /\ run.pc = "lazy"
    /\ \E launched \in BOOLEAN :
         LET tcp     == enable_tcp(run.mode)
             udp     == enable_udp(run.mode)
             context == IF tcp THEN launch_plugin(run.tcp_addr, run.plugin)
                        ELSE run.tcp_addr
         IN  /\ ~launched => tcp /\ run.plugin # {}
             /\ IF ~launched
                THEN /\ run' = [run EXCEPT !.pc = "panicked"]
                     /\ UNCHANGED <<tcpFut, udpFut>>
                ELSE /\ run' = [run EXCEPT !.pc = "running",
                                           !.udp_addr = context,
                                           !.tcp_addr = context,
                                           !.mon = IF tcp THEN "waiting" ELSE "none"]
                     /\ udpFut' = IF udp THEN "binding" ELSE udpFut
                     /\ tcpFut' = IF tcp THEN "building" ELSE tcpFut
    /\ UNCHANGED <<localVars, forbidden_ip, tcpListener, tcpSess, tcpConnects,
                   udpListener, udpTask>>

\* lines 37-62, the closure of the lazy future: with UDP enabled the context
\* is cloned for run_udp; with TCP enabled launch_plugin then changes the
\* configuration of the context (its failure panics in `expect`), the monitor
\* is made and the changed context goes to run_tcp
RunStart ==
    /\ run.pc = "lazy"
    /\ \E launched \in BOOLEAN :
         LET tcp         == enable_tcp(run.mode)
             udp         == enable_udp(run.mode)
             udp_context == run.udp_addr
             context     == IF tcp THEN launch_plugin(run.tcp_addr, run.plugin)
                            ELSE run.tcp_addr
         IN  /\ ~launched => tcp /\ run.plugin # {}
             /\ IF ~launched
                THEN /\ run' = [run EXCEPT !.pc = "panicked"]
                     /\ UNCHANGED <<tcpFut, udpFut>>
                ELSE /\ run' = [run EXCEPT !.pc = "running",
                                           !.udp_addr = udp_context,
                                           !.tcp_addr = context,
                                           !.mon = IF tcp THEN "waiting" ELSE "none"]
                     /\ udpFut' = IF udp THEN "binding" ELSE udpFut
                     /\ tcpFut' = IF tcp THEN "building" ELSE tcpFut
    /\ UNCHANGED <<localVars, forbidden_ip, tcpListener, tcpSess, tcpConnects,
                   udpListener, udpTask>>

\* monitor::monitor_signal: SIGINT or SIGTERM arrives and the future resolves
MonitorSignal ==
    /\ run.pc = "running"
    /\ run.mon = "waiting"
    /\ run' = [run EXCEPT !.mon = "done"]
    /\ UNCHANGED <<localVars, forbidden_ip, tcpVars, udpVars>>

\* what the futures of vf that have ended make of the future of run: Ok for
\* the monitor's item, Err for the error of a relay, a panic for a panic
RunOutcomes ==
    (IF run.mon = "done" THEN {"done"} ELSE {})
        \cup (IF tcpFut = "failed" \/ udpFut = "failed" THEN {"failed"} ELSE {})
        \cup (IF tcpFut = "panicked" THEN {"panicked"} ELSE {})

\* what is left of a listener when its future is dropped
DropListener(st) == IF st = "listening" THEN "closed" ELSE st

\* what is left of a relay's future when the future of run ended
DropFut(st) == IF st \in {"building", "binding", "pending"} THEN "dropped" ELSE st

\* what the end of the runtime makes of a task spawned on it: a session or a
\* datagram task that has not ended is dropped
DropSpawned(rec) ==
    IF rec.pc \in {"free", "done", "failed"} THEN rec ELSE [rec EXCEPT !.pc = "dropped"]

\* RunPoll with the futures of vf joined: run ends when all of them ended
RunPollJoined ==
    /\ run.pc = "running"
    /\ run.mon \in {"done", "none"}
    /\ tcpFut \in {"unstarted", "failed", "panicked"}
    /\ udpFut \in {"unstarted", "failed"}
    /\ \E outcome \in RunOutcomes :
         run' = [run EXCEPT !.pc = outcome]
    /\ tcpFut' = DropFut(tcpFut)
    /\ udpFut' = DropFut(udpFut)
    /\ tcpListener' = [l \in 1..NumServers |-> DropListener(tcpListener[l])]
    /\ udpListener' = [l \in 1..NumServers |-> DropListener(udpListener[l])]
    /\ tcpSess' = [t \in TcpSlots |-> DropSpawned(tcpSess[t])]
    /\ udpTask' = [u \in UdpSlots |-> DropSpawned(udpTask[u])]
    /\ UNCHANGED <<localVars, forbidden_ip, tcpConnects>>

\* lines 64-69: futures_unordered(vf).into_future() resolves with the first
\* future of vf that ends; the rest of vf is dropped with it, and the listeners
\* with their futures.  The runtime then ends, and what was spawned on it, the
\* sessions and the datagram tasks, is dropped.
RunPoll ==
    /\ run.pc = "running"
    /\ \E outcome \in RunOutcomes :
         run' = [run EXCEPT !.pc = outcome]
    /\ tcpFut' = DropFut(tcpFut)
    /\ udpFut' = DropFut(udpFut)
    /\ tcpListener' = [l \in 1..NumServers |-> DropListener(tcpListener[l])]
    /\ udpListener' = [l \in 1..NumServers |-> DropListener(udpListener[l])]
    /\ tcpSess' = [t \in TcpSlots |-> DropSpawned(tcpSess[t])]
    /\ udpTask' = [u \in UdpSlots |-> DropSpawned(udpTask[u])]
    /\ UNCHANGED <<localVars, forbidden_ip, tcpConnects>>

ServerRunNext ==
    \/ RunStart
    \/ ServerBind
    \/ UdpBind
    \/ \E l \in 1..NumServers :
         \/ ServerAccept(l)
         \/ ServerAcceptError(l)
         \/ UdpReceive(l)
         \/ UdpReceiveError(l)
    \/ MonitorSignal
    \/ RunPoll

ServerRunSpec == ServerRunInit /\ [][ServerRunNext]_vars

\* the runtime polls the future of run when one of its futures has ended
ServerRunFairSpec == ServerRunSpec /\ WF_vars(RunPoll)

(***************************************************************************)
(* Properties of the local relay.                                          *)
(***************************************************************************)
\* the backend at position k (from 0) of the round robin
RoundRobinAt(k) == Servers[(k % NumServers) + 1]

\* C1: while every lookup of a picked backend has succeeded, the k-th accepted
\* connection (k = 0, 1, 2, ...) was handed to backend list[k mod L]
RoundRobinAssignment ==
    ~anyLookupFailed =>
        \A k \in 1..Len(assigned) : assigned[k] = RoundRobinAt(k - 1)

\* C1 witness: three backends, six accepts, assigned A B C A B C
SixAcceptsInOrder ==
    /\ ~anyLookupFailed
    /\ NumServers = 3
    /\ assigned = <<"A", "B", "C", "A", "B", "C">>

\* C2 as stated: the cursor advances exactly once for each accepted connection,
\* also when the resolution of a picked backend fails
CursorOncePerAccept == cursor = accepted

\* C2 amended: an accept advances the cursor once for each backend it picks:
\* every pick before the last one is a failed resolution, so the cursor advances
\* exactly once when the first pick resolves and at most total() times
CursorOncePerPick ==
    [][accepted' = accepted + 1 =>
          LET n == Len(lastPicks')
          IN  /\ cursor' - cursor = n
              /\ n \in 1..NumServers
              /\ \A j \in 1..(n - 1) : lastPicks'[j] = "failed"
              /\ lastPicks'[n] = "failed" => n = NumServers
              /\ lastPicks'[1] # "failed" => cursor' = cursor + 1]_vars

\* C2 witness: an accept whose first pick failed to resolve and whose second
\* pick resolved: the cursor ran ahead of the number of accepts
AcceptWithRetry ==
    /\ lastPicks = <<"failed", "resolved">>
    /\ cursor > accepted

\* C3 as stated: after an accept for which every pick failed to resolve, the
\* acceptor is still accepting
AcceptorSurvivesDrop ==
    (\E k \in 1..Len(assigned) : assigned[k] = "dropped") => acceptor = "accepting"

\* the TCP response headers among what was written to a client
Headers(out) == SelectSeq(out, LAMBDA x : x.type = "TcpResponseHeader")

\* the session started no relay: no backend connection, no upstream byte, no
\* copy task
NoRelay(r) ==
    /\ ~r.connected
    /\ r.remoteOut = << >>
    /\ r.up = "none"
    /\ r.down = "none"

\* C4: a handshake request that does not list method 0x00 is answered with
\* method 0xFF and nothing else, and the session ends without reading a request
\* header; a request that lists it is answered with method 0x00
HandshakeMethodSelection ==
    \A s \in Slots :
        LET r == sess[s]
        IN  /\ r.noauth = "no" =>
                /\ r.pc = "panicked"
                /\ r.cmd = "unread"
                /\ ~r.clientOpen
                /\ NoRelay(r)
                /\ r.clientOut = IF r.clientWriteFailed THEN << >>
                                 ELSE <<[type |-> "HandshakeResponse", method |-> 255]>>
            /\ r.noauth = "yes" =>
                IF r.clientOut = << >>
                THEN r.clientWriteFailed /\ r.pc = "panicked" /\ r.cmd = "unread"
                ELSE r.clientOut[1] = [type |-> "HandshakeResponse", method |-> 0]

\* C4 witness: a request without 0x00 was answered with 0xFF
AuthRefused ==
    \E s \in Slots :
        /\ sess[s].noauth = "no"
        /\ sess[s].clientOut = <<[type |-> "HandshakeResponse", method |-> 255]>>

\* C5: a BIND request is answered with exactly one response header, carrying
\* CommandNotSupported, then the session is closed; no relay is started for it
BindRejected ==
    \A s \in Slots :
        LET r == sess[s]
            h == Headers(r.clientOut)
        IN  r.cmd = "TcpBind" =>
                /\ NoRelay(r)
                /\ IF r.pc = "TcpBind" THEN h = << >>
                   ELSE /\ r.pc \in {"done", "panicked"}
                        /\ ~r.clientOpen
                        /\ IF r.clientWriteFailed THEN h = << >>
                           ELSE Len(h) = 1 /\ h[1].reply = "CommandNotSupported"

\* C5 witness: a BIND session that ended with its one reply written
BindAnswered ==
    \E s \in Slots :
        /\ sess[s].cmd = "TcpBind"
        /\ sess[s].pc = "done"
        /\ Len(Headers(sess[s].clientOut)) = 1

\* C6 as stated: UDP ASSOCIATE is answered Succeeded with the bound address of
\* the local UDP relay when UDP is enabled, CommandNotSupported when it is not
UdpAssociateReplyAddress ==
    \A s \in Slots :
        LET r == sess[s]
            h == Headers(r.clientOut)
        IN  r.cmd = "UdpAssociate" /\ r.pc = "done" =>
                /\ Len(h) = 1
                /\ IF config.enable_udp /\ config.feature_udp
                   THEN h[1].reply = "Succeeded" /\ h[1].address = LocalAddr
                   ELSE h[1].reply = "CommandNotSupported"

\* C7 as stated: after Succeeded was replied to UDP ASSOCIATE the relay keeps
\* the TCP control socket open (the client of the model never closes it)
ControlSocketStaysOpen ==
    \A s \in Slots :
        LET r == sess[s]
            h == Headers(r.clientOut)
        IN  (r.cmd = "UdpAssociate" /\ h # << >> /\ h[1].reply = "Succeeded")
                => r.clientOpen

\* C8: a failed connect to the backend is answered HostUnreachable for
\* ConnectionRefused, ConnectionReset and ConnectionAborted and
\* NetworkUnreachable for any other error, and the session ends with no copy
ConnectFailureReply ==
    \A s \in Slots :
        LET r == sess[s]
            h == Headers(r.clientOut)
        IN  r.connErr # "none" =>
                /\ r.cmd = "TcpConnect"
                /\ r.pc \in {"done", "panicked"}
                /\ ~r.clientOpen
                /\ NoRelay(r)
                /\ IF r.clientWriteFailed THEN h = << >>
                   ELSE /\ Len(h) = 1
                        /\ h[1].reply =
                             IF r.connErr \in {"ConnectionRefused", "ConnectionReset",
                                               "ConnectionAborted"}
                             THEN "HostUnreachable"
                             ELSE "NetworkUnreachable"

\* C8 witness: a connect that ended with ConnectionReset, answered
\* HostUnreachable
ConnectResetAnswered ==
    \E s \in Slots :
        /\ sess[s].connErr = "ConnectionReset"
        /\ Headers(sess[s].clientOut) # << >>
        /\ Headers(sess[s].clientOut)[1].reply = "HostUnreachable"

\* C9 as stated: when the request header cannot be read, a response header with
\* REPLY=1 (general failure) is written to the client before the session closes
HeaderErrorAnswered ==
    \A s \in Slots :
        LET r == sess[s]
            h == Headers(r.clientOut)
        IN  r.cmd = "err" => \E i \in 1..Len(h) : h[i].reply = "GeneralFailure"

\* C10: on a backend connection the first iv_size(method) bytes written are the
\* generated IV in the clear, every byte after them is ciphertext, and that
\* ciphertext is what an encryptor keyed with the IV on the wire produces
UpstreamIvFirst ==
    \A s \in Slots :
        LET r    == sess[s]
            m    == ServerMethod(r.server)
            n    == IvSize(m)
            out  == r.remoteOut
            wire == [i \in 1..n |-> out[i].b]
            sent == AddrBytes(r.addr) \o SubSeq(ClientPayload, 1, r.upRead)
            enc  == EncryptSeq(new_stream(m, ServerKey(r.server), wire, "Encrypt"),
                               sent).out
        IN  r.connected =>
                /\ Len(r.iv) = n
                /\ out # << >> =>
                     /\ Len(out) >= n
                     /\ \A i \in 1..n : out[i].clear /\ out[i].b = r.iv[i]
                     /\ \A i \in (n + 1)..Len(out) : ~out[i].clear
                     /\ \A i \in (n + 1)..Len(out) : out[i] = enc[i - n]

\* C10 witness: a connection with a non-zero IV on which ciphertext of the
\* client's payload followed the IV and the address
IvThenCiphertext ==
    \E s \in Slots :
        /\ sess[s].connected
        /\ IvSize(ServerMethod(sess[s].server)) > 0
        /\ sess[s].iv[1] # 0
        /\ sess[s].upRead = Len(ClientPayload)
        /\ Len(sess[s].remoteOut) = IvSize(ServerMethod(sess[s].server))
                                    + Len(AddrBytes(sess[s].addr)) + Len(ClientPayload)

\* what the backend reads from a connection: the bytes after the IV, decrypted
\* with the transform keyed by the IV that came first on the wire
RECURSIVE DecryptWire(_, _)
DecryptWire(c, q) ==
    IF q = << >> THEN << >>
    ELSE <<UpdateByte(c, Head(q).b)>> \o DecryptWire(Advance(c), Tail(q))

\* the plaintext a backend recovers from what a session wrote to it
BackendPlain(r) ==
    LET m   == ServerMethod(r.server)
        n   == IvSize(m)
        out == r.remoteOut
    IN  IF Len(out) <= n THEN << >>
        ELSE DecryptWire(new_stream(m, ServerKey(r.server),
                                    [i \in 1..n |-> out[i].b], "Decrypt"),
                         SubSeq(out, n + 1, Len(out)))

\* C11: in a CONNECT session the first plaintext that went through the
\* encryptor to the backend is the whole destination address: before any byte
\* of the client's payload is read for encryption the backend holds the address,
\* and what follows the address is the payload read so far
AddressBeforePayload ==
    \A s \in Slots :
        LET r == sess[s]
            a == AddrBytes(r.addr)
            p == BackendPlain(r)
        IN  r.connected =>
                /\ (r.up # "none" \/ r.upRead > 0) => Len(p) >= Len(a)
                /\ p # << >> =>
                     /\ SubSeq(p, 1, Len(a)) = a
                     /\ Len(p) = Len(a) + r.upRead

\* C11 witness: a backend that decrypted the address and then the whole payload
AddressThenPayload ==
    \E s \in Slots :
        /\ sess[s].connected
        /\ sess[s].iv # << >>
        /\ BackendPlain(sess[s]) = AddrBytes(sess[s].addr) \o ClientPayload

\* C12 as stated: once the client-to-backend copy ended on the client's end of
\* file, with the other copy still at work, the backend socket (its write half
\* at least) and the client socket (its read half at least) are shut down
HalfCloseOnClientEof ==
    \A s \in Slots :
        (sess[s].up = "done" /\ sess[s].down \in {"iv", "copy"})
            => sess[s].remoteShut /\ sess[s].clientShut

\* a socket of the session was shut down
Shut(r) == r.clientShut \/ r.remoteShut

\* the scheduling the relay's tasks run under: a task blocked on a socket that
\* was shut down is woken and runs to its end, and a task that has no IV to
\* wait for goes on to its copy
FairSpec ==
    /\ Spec
    /\ \A s \in Slots :
         WF_vars(\/ Shut(sess[s]) /\ (UpFinish(s) \/ DownFinish(s)
                                      \/ DownReadIv(s) \/ DownIvFail(s))
                 \/ BlockSize(ServerMethod(sess[s].server)) = 0 /\ DownReadIv(s))

\* C13: a copy that failed with an I/O error left both sockets shut down in
\* both directions; from then on no byte moves in either direction, and the
\* session comes to its end with both sockets closed
ErrorShutsBothSockets ==
    /\ [](\A s \in Slots :
            (sess[s].up = "failed" \/ sess[s].down = "failed")
                => /\ sess[s].clientShut /\ sess[s].remoteShut
                   /\ ~ENABLED UpCopy(s)
                   /\ ~ENABLED DownCopy(s))
    /\ \A s \in Slots :
         (sess[s].up = "failed" \/ sess[s].down = "failed")
             ~> (Ended(sess[s]) /\ ~sess[s].clientOpen /\ ~sess[s].remoteOpen)

\* C13 witness: the backend-to-client copy failed while the other copy was at
\* work, and that copy has ended too
ErrorEndedBothCopies ==
    \E s \in Slots :
        /\ sess[s].down = "failed"
        /\ sess[s].up = "done"
        /\ sess[s].upRead < Len(ClientPayload)
        /\ sess[s].clientShut /\ sess[s].remoteShut
        /\ ~sess[s].clientOpen

\* the payload bytes among what was written to a client
Data(out) ==
    LET d == SelectSeq(out, LAMBDA x : x.type = "data")
    IN  [i \in 1..Len(d) |-> d[i].b]

\* C14: in each direction of a session what was delivered is a prefix of what
\* was sent, in order: the backend's plaintext after the address is a prefix of
\* the client's payload, and the payload written to the client is a prefix of
\* the backend's plaintext
FifoDelivery ==
    \A s \in Slots :
        LET r  == sess[s]
            p  == BackendPlain(r)
            up == SubSeq(p, Len(AddrBytes(r.addr)) + 1, Len(p))
            dn == Data(r.clientOut)
        IN  r.connected =>
                /\ Len(up) <= Len(ClientPayload)
                /\ up = SubSeq(ClientPayload, 1, Len(up))
                /\ Len(dn) <= Len(ServerPayload)
                /\ dn = SubSeq(ServerPayload, 1, Len(dn))

\* C14 witness: a session with an IV-carrying method in which both payloads
\* were delivered whole
BothPayloadsDelivered ==
    \E s \in Slots :
        /\ IvSize(ServerMethod(sess[s].server)) > 0
        /\ Data(sess[s].clientOut) = ServerPayload
        /\ Len(BackendPlain(sess[s])) = Len(AddrBytes(sess[s].addr)) + Len(ClientPayload)

\* a protocol violation or an I/O error met the session: a handshake that
\* failed, a request header that could not be read, a write to the client that
\* failed, or a backend stream that ended inside its IV
Faulted(r) ==
    \/ r.noauth \in {"no", "err"}
    \/ r.cmd = "err"
    \/ r.clientWriteFailed
    \/ r.down = "panicked"

\* C18 as stated: such a fault is a recoverable one: it ends the session it met
\* by a return that closes the session, and no task of the session is ended by
\* a panic, the failure that is not local to a session
SessionFaultIsRecoverable ==
    \A s \in Slots :
        Faulted(sess[s]) =>
            /\ sess[s].pc # "panicked"
            /\ sess[s].down # "panicked"

\* a copy task of the session is at work
Relaying(r) == r.up = "running" \/ r.down \in {"iv", "copy"}

\* C27 as stated: a session does not stay for ever with a copy task at work
\* and no byte moving: it moves a byte, or it is torn down, both sockets shut
\* down and both copy tasks ended
IdleSessionTornDown ==
    \A s \in Slots :
        \A i \in 0..Len(ClientPayload) :
            \A j \in 0..(IvLen + Len(ServerPayload)) :
                (Relaying(sess[s]) /\ sess[s].upRead = i /\ sess[s].downRead = j)
                    ~> \/ ~(sess[s].upRead = i /\ sess[s].downRead = j)
                       \/ /\ Ended(sess[s])
                          /\ sess[s].clientShut
                          /\ sess[s].remoteShut

\* C28 as stated: the decryptor of the backend-to-client task exists only
\* once iv_size(method) bytes of the backend's stream were accumulated and is
\* keyed with those bytes; and a task that left the IV loop with fewer bytes
\* ended as a failed copy does (an error, UnexpectedEof), with no payload byte
\* written to the client
DecryptorAfterWholeIv ==
    \A s \in Slots :
        LET r == sess[s]
            m == ServerMethod(r.server)
            n == IvSize(m)
        IN  r.pc = "relay" =>
                /\ r.decryptor # NoCipher =>
                     /\ Len(r.remote_iv) = n
                     /\ r.remote_iv = SubSeq(RemoteStream(r.server), 1, n)
                     /\ [r.decryptor EXCEPT !.pos = 0] =
                            new_stream(m, ServerKey(r.server), r.remote_iv, "Decrypt")
                /\ (r.down \notin {"none", "iv"} /\ Len(r.remote_iv) < n) =>
                     /\ r.down = "failed"
                     /\ Data(r.clientOut) = << >>

\* C29: a connect to a backend was tried, a byte was written to a backend, or
\* a copy task was started, only in a session whose handshake selected method
\* 0x00 and whose request header was read with the command CONNECT
BackendOnlyForConnect ==
    \A s \in Slots :
        LET r == sess[s]
        IN  (r.connected \/ r.connErr # "none" \/ r.remoteOut # << >>
                \/ r.up # "none" \/ r.down # "none")
                => r.noauth = "yes" /\ r.cmd = "TcpConnect"

\* C29 witness: a CONNECT session connected to its backend and wrote to it
ConnectSessionWrote ==
    \E s \in Slots :
        /\ sess[s].noauth = "yes"
        /\ sess[s].cmd = "TcpConnect"
        /\ sess[s].connected
        /\ sess[s].remoteOut # << >>

\* C30: at most one response header is written to the client of a session;
\* in a CONNECT session a header with the reply Succeeded is there only with
\* the backend connected, and every payload byte written to the client comes
\* after such a header
OneHeaderBeforePayload ==
    \A s \in Slots :
        LET r   == sess[s]
            out == r.clientOut
        IN  /\ Len(Headers(out)) <= 1
            /\ \A i \in 1..Len(out) :
                 /\ (/\ out[i].type = "TcpResponseHeader"
                     /\ out[i].reply = "Succeeded"
                     /\ r.cmd = "TcpConnect") => r.connected
                 /\ out[i].type = "data" =>
                        \E j \in 1..(i - 1) :
                            /\ out[j].type = "TcpResponseHeader"
                            /\ out[j].reply = "Succeeded"

\* C30 witness: a CONNECT session whose client got Succeeded and then the
\* whole of the backend's payload
SucceededThenPayload ==
    \E s \in Slots :
        LET out == sess[s].clientOut
        IN  /\ sess[s].cmd = "TcpConnect"
            /\ Len(Headers(out)) = 1
            /\ Headers(out)[1].reply = "Succeeded"
            /\ Data(out) = ServerPayload

(***************************************************************************)
(* Properties of the server's TCP relay.                                   *)
(***************************************************************************)
\* C15: no TcpStream::connect is issued to an address of the forbidden set,
\* for a target given as a socket address and for one given as a domain name:
\* a session is past its resolution only with an address outside the set
NoConnectToForbidden ==
    /\ tcpConnects \cap forbidden_ip = {}
    /\ \A t \in TcpSlots :
         /\ tcpSess[t].pc \in {"connect", "tunnel", "done"}
                => tcpSess[t].resolved \in IpAddrs \ forbidden_ip
         /\ tcpSess[t].err = "Forbidden IP" => tcpSess[t].resolved = "none"

\* C15 witness: with a connect made to another address, a target given as a
\* socket address in the forbidden set was refused
ForbiddenLiteralRefused ==
    \E t \in TcpSlots :
        /\ tcpSess[t].err = "Forbidden IP"
        /\ tcpSess[t].addr.type = "SocketAddress"
        /\ tcpSess[t].addr.ip \in forbidden_ip
        /\ tcpConnects # {}

\* the resolution of a session's target has been made
Resolved(r) ==
    \/ r.pc \in {"connect", "tunnel", "done"}
    \/ r.pc = "failed" /\ r.err \notin {"peer_addr", "handshake", "address"}

\* C16: for a domain target the first answer of the resolver is the address
\* used; when the first answer is in the forbidden set the resolution fails
\* with Forbidden whatever the later answers, and with no answer it fails
FirstAnswerUsed ==
    \A t \in TcpSlots :
        LET r == tcpSess[t]
        IN  (r.addr.type = "DomainNameAddress" /\ Resolved(r)) =>
                IF r.answers = << >>
                THEN /\ r.pc = "failed"
                     /\ r.err \in {"lookup", "Failed to resolve domain"}
                     /\ r.resolved = "none"
                ELSE IF r.answers[1] \in forbidden_ip
                THEN /\ r.pc = "failed"
                     /\ r.err = "Forbidden IP"
                     /\ r.resolved = "none"
                ELSE r.resolved = r.answers[1]

\* C16 witness: a resolution failed with Forbidden on its first answer while
\* its second answer was not forbidden
ForbiddenFirstAnswer ==
    \E t \in TcpSlots :
        /\ Len(tcpSess[t].answers) = 2
        /\ tcpSess[t].answers[1] \in forbidden_ip
        /\ tcpSess[t].answers[2] \notin forbidden_ip
        /\ tcpSess[t].err = "Forbidden IP"

\* C17 as stated: a step in which the handling of an accepted connection
\* fails, whatever the error, leaves every listener and the future of run as
\* they were
SessionErrorIsLocal ==
    [][\A t \in TcpSlots :
          (tcpSess[t].pc # "failed" /\ tcpSess'[t].pc = "failed")
              => /\ tcpListener' = tcpListener
                 /\ tcpFut' = tcpFut]_vars

\* C19 as stated: a step in which the bind of one ServerConfig fails leaves
\* the other listeners as they were and run going on
BindFailureIsLocal ==
    [][\A l \in 1..NumServers :
          (tcpListener[l] = "unbound" /\ tcpListener'[l] = "bindfailed")
              => /\ tcpFut' \in {"building", "pending"}
                 /\ \A j \in 1..NumServers \ {l} : tcpListener'[j] = tcpListener[j]]_vars

(***************************************************************************)
(* Properties of the server's UDP relay.                                   *)
(***************************************************************************)
\* the target of a datagram is in the forbidden set: the socket address it
\* names, or the first answer of the resolver for the domain it names
TargetForbidden(k) ==
    \/ k.addr.type = "SocketAddress" /\ k.addr.ip \in forbidden_ip
    \/ k.addr.type = "DomainNameAddress" /\ k.first \in forbidden_ip

\* C20: a datagram whose target is in the forbidden set is dropped: its task
\* fails at the resolution, its body is sent nowhere and nothing is sent back
\* to its source; no datagram at all is sent to a forbidden address
ForbiddenDatagramDropped ==
    \A u \in UdpSlots :
        LET k == udpTask[u]
        IN  /\ k.sent \notin forbidden_ip
            /\ TargetForbidden(k) =>
                 /\ k.pc \in {"resolve", "failed"}
                 /\ k.sent = "none"
                 /\ k.from = "none"
                 /\ k.reply.to = "none"

\* C20 witness: a datagram for a forbidden socket address failed at the
\* resolution, its ephemeral socket released, while another datagram was sent
\* to its target
ForbiddenDatagramRefused ==
    \E u, v \in UdpSlots :
        /\ udpTask[u].addr.type = "SocketAddress"
        /\ udpTask[u].addr.ip \in forbidden_ip
        /\ udpTask[u].err = "forbidden"
        /\ udpTask[u].socket = "released"
        /\ udpTask[v].sent # "none"

\* C21: a task sends a datagram back to the client only as its last step, and
\* only after its body went to the target and a reply was taken from its
\* ephemeral socket; a task that failed (decrypt, address, bind, resolve,
\* send, receive, deadline) sent nothing back
OneReplyAfterReceive ==
    \A u \in UdpSlots :
        LET k == udpTask[u]
        IN  /\ k.reply.to # "none" =>
                 /\ k.pc = "done"
                 /\ k.err = "none"
                 /\ k.sent # "none"
                 /\ k.from # "none"
            /\ k.pc = "failed" => k.reply.to = "none" /\ k.err # "none"
            /\ k.pc = "done" => k.reply.to # "none"

\* C21 witness: one datagram was answered while the wait of another ran into
\* its deadline and nothing was sent back for it
RepliedAndTimedOut ==
    \E u, v \in UdpSlots :
        /\ udpTask[u].pc = "done"
        /\ udpTask[u].reply.to = udpTask[u].src
        /\ udpTask[v].err = "TimedOut"
        /\ udpTask[v].from = "none"
        /\ udpTask[v].reply.to = "none"

\* C22: whatever other datagrams are in flight, the datagram a task sends
\* back goes to the source of the task's own inbound datagram and carries the
\* address read from that datagram
ReplyToOwnSource ==
    \A u \in UdpSlots :
        LET k == udpTask[u]
        IN  k.reply.to # "none" =>
                /\ k.reply.to = k.src
                /\ k.reply.addr = k.addr

\* C22 witness: two datagrams of different sources and for different
\* addresses in flight together, each answered to its own source
TwoSourcesAnswered ==
    \E u, v \in UdpSlots :
        /\ udpTask[u].src # udpTask[v].src
        /\ udpTask[u].addr # udpTask[v].addr
        /\ udpTask[u].reply = [to |-> udpTask[u].src, addr |-> udpTask[u].addr]
        /\ udpTask[v].reply = [to |-> udpTask[v].src, addr |-> udpTask[v].addr]

\* C23: every datagram task ends, whether or not the target answers and the
\* client's side takes the reply: no task stays in flight for ever (a slot is
\* left only by a task that has ended); a task that ran into a deadline has
\* failed with TimedOut and its ephemeral socket is released
UdpTaskTerminates ==
    /\ [](\A u \in UdpSlots :
            udpTask[u].err = "TimedOut" =>
                /\ udpTask[u].pc = "failed"
                /\ udpTask[u].socket = "released")
    /\ \A u \in UdpSlots : []<>(udpTask[u].pc \in {"free", "done", "failed"})

\* C23 witness: one task timed out waiting for the target, another timed out
\* sending back, the ephemeral sockets of both released
BothDeadlinesExpired ==
    \E u, v \in UdpSlots :
        /\ udpTask[u].err = "TimedOut"
        /\ udpTask[u].from = "none"
        /\ udpTask[u].socket = "released"
        /\ udpTask[v].err = "TimedOut"
        /\ udpTask[v].from # "none"
        /\ udpTask[v].socket = "released"

\* C24: a listener that is up takes the next datagram whatever the tasks of
\* earlier datagrams are doing; a task past its bind holds an ephemeral socket
\* of its own; and a step of a task, its failure included, changes neither a
\* listener nor the join of the listeners nor another task
DatagramsIndependent ==
    /\ [](\A l \in 1..NumServers :
            (udpFut = "pending" /\ udpListener[l] = "listening" /\ FreeUdpSlots # {})
                => ENABLED UdpReceive(l))
    /\ [](\A u \in UdpSlots :
            udpTask[u].pc \in {"resolve", "send", "recv", "sendback"}
                => udpTask[u].socket = "bound")
    /\ [][\A u \in UdpSlots :
            (udpTask[u].pc # "free" /\ udpTask'[u] # udpTask[u]) =>
                /\ udpFut' = udpFut
                /\ udpListener' = udpListener
                /\ \A v \in UdpSlots \ {u} : udpTask'[v] = udpTask[v]]_vars

\* C24 witness: a datagram received while an earlier one was in flight was
\* relayed and answered, the earlier one still waiting for its reply or timed
\* out, the listeners all up
LaterDatagramOvertakes ==
    \E u, v \in UdpSlots :
        /\ udpTask[v].behind
        /\ udpTask[v].pc = "done"
        /\ ~udpTask[u].behind
        /\ \/ udpTask[u].pc = "recv"
           \/ udpTask[u].err = "TimedOut"
        /\ udpFut = "pending"

(***************************************************************************)
(* Properties of relay::server::run.                                       *)
(***************************************************************************)
\* C25: the TCP relay is started only with the plugins' endpoints in place of
\* the addresses of the servers that have a plugin, so that every TCP listener
\* is bound to the overridden address, while every UDP listener is bound to
\* the address as configured
PluginsBeforeTcp ==
    /\ tcpFut # "unstarted" =>
            run.tcp_addr = [l \in 1..NumServers |->
                               IF l \in run.plugin THEN PluginAddr(l)
                               ELSE ConfiguredAddr(l)]
    /\ \A l \in 1..NumServers :
         /\ tcpListener[l] = "listening" =>
                run.tcp_bound[l] = IF l \in run.plugin THEN PluginAddr(l)
                                   ELSE ConfiguredAddr(l)
         /\ udpListener[l] = "listening" => run.udp_bound[l] = ConfiguredAddr(l)

\* C25 witness: a server with a plugin whose TCP listener is bound to the
\* plugin's endpoint and whose UDP listener is bound to the configured address
BothRelaysBound ==
    \E l \in run.plugin :
        /\ tcpListener[l] = "listening"
        /\ run.tcp_bound[l] = PluginAddr(l)
        /\ udpListener[l] = "listening"
        /\ run.udp_bound[l] = ConfiguredAddr(l)

\* the future of run has ended
RunEnded == run.pc \in {"done", "failed", "panicked"}

Spawned == {s \in Slots : sess[s].pc = "free" /\ sess'[s].pc = "handshake"}

\* C31: the backend cache only grows: an entry is never removed or replaced; a
\* pick of a backend that is in the cache uses the cached address with no
\* lookup; a failed lookup leaves no entry; and the address a session is given
\* is the cached IP of its backend under the port of the picked ServerConfig
CacheOnlyGrows ==
    [][/\ \A h \in DOMAIN cached_proxy :
            h \in DOMAIN cached_proxy' /\ cached_proxy'[h] = cached_proxy[h]
       /\ accepted' = accepted + 1 =>
            \A j \in DOMAIN lastPicks' :
                LET h == RoundRobinAt(cursor + j - 1)
                IN  /\ h \in DOMAIN cached_proxy => lastPicks'[j] = "cached"
                    /\ lastPicks'[j] = "cached" => h \in DOMAIN cached_proxy
                    /\ lastPicks'[j] = "failed" => h \notin DOMAIN cached_proxy'
                    /\ lastPicks'[j] = "resolved" => h \in DOMAIN cached_proxy'
       /\ \A s \in Spawned :
            LET i == sess'[s].server
            IN  /\ Servers[i] \in DOMAIN cached_proxy'
                /\ sess'[s].server_addr.ip = cached_proxy'[Servers[i]].ip
                /\ sess'[s].server_addr.port = ServerPort(i)
       /\ \A s \in Slots : sess[s].pc # "free" /\ sess'[s].pc # "free" =>
                               sess'[s].server_addr = sess[s].server_addr]_vars

\* C31 witness: an accept whose first two picks failed to resolve and whose
\* third pick took a backend from the cache, and the session it spawned holds
\* the cached IP under the port of that backend
CachedPickAfterFailures ==
    /\ lastPicks = <<"failed", "failed", "cached">>
    /\ \E s \in Slots :
         /\ sess[s].pc # "free"
         /\ Servers[sess[s].server] \in DOMAIN cached_proxy
         /\ sess[s].server_addr = [ip |-> <<"ip", Servers[sess[s].server]>>,
                                   port |-> ServerPort(sess[s].server)]
         /\ \E h \in {Servers[i] : i \in 1..NumServers} : h \notin DOMAIN cached_proxy

(***************************************************************************)
(* The sender of the datagram the server's UDP relay sends back.           *)
(***************************************************************************)
\* C32: a task waiting on its ephemeral socket takes the first datagram that
\* arrives, whoever sent it, and receives no second one; having taken it, it
\* can send it back whoever the sender was; and what it puts in front of the
\* reply is the address of the request, also when the sender is neither the
\* resolved target nor that address
ReplyFromAnySender ==
    /\ [](\A u \in UdpSlots : udpTask[u].pc = "recv" =>
            \A from \in IpAddrs :
                ENABLED (/\ UdpRecvReply(u)
                         /\ udpTask'[u].pc = "sendback"
                         /\ udpTask'[u].from = from))
    /\ [](\A u \in UdpSlots : udpTask[u].pc = "sendback" =>
            ENABLED (/\ UdpSendBack(u)
                     /\ udpTask'[u].pc = "done"
                     /\ udpTask'[u].reply.addr = udpTask[u].addr))
    /\ [][\A u \in UdpSlots : udpTask[u].from # "none" =>
            \/ udpTask'[u].pc = "free"
            \/ udpTask'[u].from = udpTask[u].from]_vars
    /\ [](\A u \in UdpSlots : udpTask[u].pc = "done" =>
            /\ udpTask[u].from \in IpAddrs
            /\ udpTask[u].reply.addr = udpTask[u].addr)

\* C32 witness: a datagram for ip2 went to ip2, the first datagram on the
\* ephemeral socket came from ip1, and it was sent back to the client under
\* the address ip2
StrangerRelayedBack ==
    \E u \in UdpSlots :
        /\ udpTask[u].pc = "done"
        /\ udpTask[u].addr = SocketAddress("ip2")
        /\ udpTask[u].sent = "ip2"
        /\ udpTask[u].from = "ip1"
        /\ udpTask[u].reply = [to |-> udpTask[u].src, addr |-> SocketAddress("ip2")]

====
